---- MODULE Spec2Model ----
(***************************************************************************)
(* The weighted CNF store of MaxHS (Wcnf.cc): clause insertion, the        *)
(* simplification pipeline                                                 *)
(*   simpleHarden -> subEqsAndUnits -> remDupCls -> mxBvars -> remapVars   *)
(* and the lift of a model of the simplified formula back to the input.    *)
(*                                                                         *)
(* A literal is the integer Minisat gives it: 2*var + sign, the sign bit   *)
(* set for a negative literal.  A clause is a sequence of literals.        *)
(***************************************************************************)
EXTENDS Integers, Sequences, FiniteSets, TLC

(* ------------------------------------------------------------------ *)
(* Bounds of the model.                                                *)
(* ------------------------------------------------------------------ *)
MaxVarId == 1
MaxCls == 3
MaxWt == 2
MaxSimp == 2
MaxLits == 3
MaxDupHards == 3
MaxDupSofts == 3
MaxDupCls == 4
MaxMxSofts == 3

(* ------------------------------------------------------------------ *)
(* Literals (minisat/core/SolverTypes.h as used by Wcnf.cc).           *)
(* ------------------------------------------------------------------ *)
var_Undef == -1
lit_Undef == -2

mkLit(v, sgn) == 2 * v + (IF sgn THEN 1 ELSE 0)
var(l) == l \div 2
sign(l) == l % 2 = 1
Neg(l) == IF l % 2 = 0 THEN l + 1 ELSE l - 1
toInt(l) == l

Range(s) == {s[i] : i \in 1..Len(s)}

RECURSIVE SeqSum(_)
SeqSum(s) == IF s = <<>> THEN 0 ELSE Head(s) + SeqSum(Tail(s))

RECURSIVE Flatten(_)
Flatten(ss) == IF ss = <<>> THEN <<>> ELSE Head(ss) \o Flatten(Tail(ss))

Max(a, b) == IF a > b THEN a ELSE b
Min(a, b) == IF a < b THEN a ELSE b

RECURSIVE SetMax(_)
SetMax(S) ==
  IF S = {} THEN -1
  ELSE LET x == CHOOSE y \in S : \A z \in S : z <= y IN x

(* std::sort on a vector of integers (literals or weights): ascending *)
RECURSIVE SortInts(_)
SortInts(s) ==
  IF s = <<>> THEN <<>>
  ELSE LET m == CHOOSE i \in 1..Len(s) : \A j \in 1..Len(s) : s[i] <= s[j]
       IN <<s[m]>> \o SortInts(SubSeq(s, 1, m - 1) \o SubSeq(s, m + 1, Len(s)))

(* ------------------------------------------------------------------ *)
(* Wcnf::prepareClause.  Returns [ok, lits]: ok = FALSE for a          *)
(* tautology (lits is then the sorted, partly compacted vector the     *)
(* caller discards).                                                   *)
(* ------------------------------------------------------------------ *)
RECURSIVE PrepLoop(_, _, _)
PrepLoop(lits, cur_size, examine) ==
  IF examine > Len(lits)
    THEN [ok |-> TRUE, lits |-> SubSeq(lits, 1, cur_size)]
  ELSE IF lits[cur_size] = Neg(lits[examine])
    THEN [ok |-> FALSE, lits |-> lits]
  ELSE IF lits[cur_size] # lits[examine]
    THEN PrepLoop([lits EXCEPT ![cur_size + 1] = lits[examine]],
                  cur_size + 1, examine + 1)
  ELSE PrepLoop(lits, cur_size, examine + 1)

\* prepareClause without the std::sort of line 109
prepareClause_noSort(lits) ==
  IF Len(lits) > 1 THEN PrepLoop(lits, 1, 2)
  ELSE [ok |-> TRUE, lits |-> lits]

prepareClause(lits) ==
  IF Len(lits) > 1 THEN PrepLoop(SortInts(lits), 1, 2)
  ELSE [ok |-> TRUE, lits |-> lits]

(* ------------------------------------------------------------------ *)
(* State: the fields of the Wcnf object (Wcnf.h), the mutable          *)
(* parameter singleton `params`, and the position of the caller.       *)
(* Vectors indexed from 0 in the source are sequences indexed from 1.  *)
(* ------------------------------------------------------------------ *)
VARIABLES
  hard_cls,       \* Packed_vecs<Lit> hard_cls
  soft_cls,       \* Packed_vecs<Lit> soft_cls
  soft_clswts,    \* vector<Weight> soft_clswts
  base_cost, total_cls_wt, maxvar, maxorigvar, unsat, noDups,
  dimacs_top,     \* Weight dimacs_top; TopMax stands for numeric_limits::max()
  transitionWts, wt_max,
  hard_units, all_scc, flipped_vars, ex2in, in2ex,
  mutexes,        \* vector<SC_mx>: records [blits, is_core, encoding_lit]
  params,         \* the option singleton; simplify() writes mx_find_mxes
  pc,             \* where the caller is: "idle", "parse", or the next pass of simplify()
  orig_hards, orig_softs, orig_wts,  \* the input formula, clause by clause
  nsimp,          \* calls of simplify() so far
  loaded,         \* "none", or what inputDimacs read: "softs" | "nosofts"
  snap,           \* the store as it was when the current simplify() began
  finder,         \* the MXFinder of a mutex search in progress, with its Bvars
  call            \* a single method call on its own: its name, argument, result

wvars == <<hard_cls, soft_cls, soft_clswts, base_cost, total_cls_wt, maxvar,
           maxorigvar, unsat, noDups, dimacs_top, transitionWts, wt_max,
           hard_units, all_scc, flipped_vars, ex2in, in2ex, mutexes>>
ghost == <<orig_hards, orig_softs, orig_wts, nsimp, loaded, snap>>
vars == <<wvars, params, pc, ghost, finder, call>>

\* The Wcnf object as one record, so that a method is an operator on it.
W == [hard_cls |-> hard_cls, soft_cls |-> soft_cls, soft_clswts |-> soft_clswts,
      base_cost |-> base_cost, total_cls_wt |-> total_cls_wt, maxvar |-> maxvar,
      maxorigvar |-> maxorigvar, unsat |-> unsat, noDups |-> noDups,
      dimacs_top |-> dimacs_top, transitionWts |-> transitionWts,
      wt_max |-> wt_max, hard_units |-> hard_units, all_scc |-> all_scc,
      flipped_vars |-> flipped_vars, ex2in |-> ex2in, in2ex |-> in2ex,
      mutexes |-> mutexes]

Assign(n) ==
  /\ hard_cls' = n.hard_cls /\ soft_cls' = n.soft_cls
  /\ soft_clswts' = n.soft_clswts /\ base_cost' = n.base_cost
  /\ total_cls_wt' = n.total_cls_wt /\ maxvar' = n.maxvar
  /\ maxorigvar' = n.maxorigvar /\ unsat' = n.unsat /\ noDups' = n.noDups
  /\ dimacs_top' = n.dimacs_top /\ transitionWts' = n.transitionWts
  /\ wt_max' = n.wt_max /\ hard_units' = n.hard_units /\ all_scc' = n.all_scc
  /\ flipped_vars' = n.flipped_vars /\ ex2in' = n.ex2in /\ in2ex' = n.in2ex
  /\ mutexes' = n.mutexes

TopMax == 1000000

\* A default-constructed Wcnf (the member initialisers of Wcnf.h).
EmptyWcnf ==
  [hard_cls |-> <<>>, soft_cls |-> <<>>, soft_clswts |-> <<>>, base_cost |-> 0,
   total_cls_wt |-> 0, maxvar |-> 0, maxorigvar |-> 0, unsat |-> FALSE,
   noDups |-> TRUE, dimacs_top |-> TopMax, transitionWts |-> <<>>, wt_max |-> 0,
   hard_units |-> <<>>, all_scc |-> <<>>, flipped_vars |-> <<>>, ex2in |-> <<>>,
   in2ex |-> <<>>, mutexes |-> <<>>]

nVars(w) == w.maxvar + 1
nOrigVars(w) == w.maxorigvar + 1
nHards(w) == Len(w.hard_cls)
nSofts(w) == Len(w.soft_cls)

(* ------------------------------------------------------------------ *)
(* Clause insertion.                                                   *)
(* ------------------------------------------------------------------ *)
\* update_maxorigvar without the raise of maxvar (line 125 left out)
update_maxorigvar_noRaise(w, lits) ==
  [w EXCEPT !.maxorigvar = Max(w.maxorigvar, SetMax({var(l) : l \in Range(lits)}))]

update_maxorigvar(w, lits) ==
  LET mo == Max(w.maxorigvar, SetMax({var(l) : l \in Range(lits)}))
  IN [w EXCEPT !.maxorigvar = mo, !.maxvar = IF mo > w.maxvar THEN mo ELSE w.maxvar]

\* _addHardClause without the write of noDups (line 142 left out)
_addHardClause_keepsNoDups(w, lits) ==
  IF w.unsat THEN w
  ELSE LET p == prepareClause(lits) IN
    IF ~p.ok THEN w
    ELSE [w EXCEPT !.maxvar = Max(w.maxvar, SetMax({var(l) : l \in Range(p.lits)})),
                   !.hard_cls = Append(w.hard_cls, p.lits)]

_addHardClause(w, lits) ==
  IF w.unsat THEN w
  ELSE LET p == prepareClause(lits) IN
    IF ~p.ok THEN w
    ELSE [w EXCEPT !.maxvar = Max(w.maxvar, SetMax({var(l) : l \in Range(p.lits)})),
                   !.hard_cls = Append(w.hard_cls, p.lits),
                   !.noDups = FALSE]

addHardClause(w, lits) == _addHardClause(update_maxorigvar(w, lits), lits)

\* _addSoftClause without the total_cls_wt update (line 165 left out)
_addSoftClause_noTotal(w, lits, wt) ==
  IF w.unsat THEN w
  ELSE LET p == prepareClause(lits) IN
    IF ~p.ok THEN w
    ELSE IF Len(p.lits) > 0
      THEN [w EXCEPT !.soft_cls = Append(w.soft_cls, p.lits),
                     !.soft_clswts = Append(w.soft_clswts, wt),
                     !.maxvar = Max(w.maxvar, SetMax({var(l) : l \in Range(p.lits)})),
                     !.noDups = FALSE]
    ELSE [w EXCEPT !.base_cost = w.base_cost + wt, !.noDups = FALSE]

_addSoftClause(w, lits, wt) ==
  IF w.unsat THEN w
  ELSE LET p == prepareClause(lits) IN
    IF ~p.ok THEN w
    ELSE IF Len(p.lits) > 0
      THEN [w EXCEPT !.soft_cls = Append(w.soft_cls, p.lits),
                     !.soft_clswts = Append(w.soft_clswts, wt),
                     !.total_cls_wt = w.total_cls_wt + wt,
                     !.maxvar = Max(w.maxvar, SetMax({var(l) : l \in Range(p.lits)})),
                     !.noDups = FALSE]
    ELSE [w EXCEPT !.base_cost = w.base_cost + wt, !.noDups = FALSE]

addSoftClause(w, lits, wt) ==
  IF wt < 0 THEN w
  ELSE IF wt > 0 THEN _addSoftClause(update_maxorigvar(w, lits), lits, wt)
  ELSE w

addDimacsClause(w, lits, wt) ==
  IF wt >= w.dimacs_top THEN addHardClause(w, lits) ELSE addSoftClause(w, lits, wt)

(* ------------------------------------------------------------------ *)
(* Propositional semantics, used by the SAT oracle and by the claims.  *)
(* An assignment is the set of variables it makes true.                *)
(* ------------------------------------------------------------------ *)
LitTrue(l, A) == IF sign(l) THEN var(l) \notin A ELSE var(l) \in A
ClsSat(c, A) == \E i \in 1..Len(c) : LitTrue(c[i], A)
VarsOf(cls) == {var(l) : l \in Range(Flatten(cls))}
NumVars(cls) == SetMax(VarsOf(cls)) + 1
Models(cls, n) ==
  {A \in SUBSET (0..(n - 1)) : \A i \in 1..Len(cls) : ClsSat(cls[i], A)}

(* ------------------------------------------------------------------ *)
(* The SAT oracle (cadicalSolver behind SatSolver_uniqp).  It is an    *)
(* external collaborator; an answer is any answer a sound solver may   *)
(* give.  `strong` selects the two extremes: unit propagation only, or *)
(* a solver that knows every consequence of its clauses.               *)
(* ------------------------------------------------------------------ *)
RECURSIVE UnitProp(_, _)
UnitProp(cls, F) ==
  LET open(c) == {l \in Range(c) : Neg(l) \notin F}
      isTrue(c) == Range(c) \cap F # {}
      conflict == \/ \E i \in 1..Len(cls) : ~isTrue(cls[i]) /\ open(cls[i]) = {}
                  \/ \E l \in F : Neg(l) \in F
      units == {i \in 1..Len(cls) :
                  ~isTrue(cls[i]) /\ Cardinality(open(cls[i])) = 1}
  IN IF conflict THEN [conflict |-> TRUE, forced |-> F]
     ELSE IF units = {} THEN [conflict |-> FALSE, forced |-> F]
     ELSE UnitProp(cls, F \cup UNION {open(cls[i]) : i \in units})

Entailed(cls, n) ==
  {l \in 0..(2 * n - 1) : \A A \in Models(cls, n) : LitTrue(l, A)}

theory_is_unsat(cls, strong) ==
  IF strong THEN Models(cls, NumVars(cls)) = {} ELSE UnitProp(cls, {}).conflict

\* sat_solver->getForced(0) after unit_propagate(); the literals in increasing order
RECURSIVE SetToSeq(_)
SetToSeq(S) ==
  IF S = {} THEN <<>>
  ELSE LET x == CHOOSE y \in S : \A z \in S : y <= z IN <<x>> \o SetToSeq(S \ {x})

getForced(cls, strong) ==
  SetToSeq(IF strong THEN Entailed(cls, NumVars(cls)) ELSE UnitProp(cls, {}).forced)

\* sat_solver->fixedValue(l): "T", "F" or "U"
fixedValue(forced, l) ==
  IF l \in Range(forced) THEN "T" ELSE IF Neg(l) \in Range(forced) THEN "F" ELSE "U"

\* solvePropBudget: the answer, or l_Undef when the budget runs out
solvePropBudget(cls) ==
  {IF Models(cls, NumVars(cls)) # {} THEN "T" ELSE "F", "U"}

\* the implications of l among the literals of 0..n-1
UPImplied(cls, l) ==
  LET r == UnitProp(cls \o <<<<l>>>>, {}) IN IF r.conflict THEN {} ELSE r.forced
SemImplied(cls, n, l) == Entailed(cls \o <<<<l>>>>, n)

(* ------------------------------------------------------------------ *)
(* Wcnf::computeWtInfo: wt_max and the transition weights.             *)
(* ------------------------------------------------------------------ *)
\* lines 1772-1782: the distinct weights of the sorted vector with their counts
RECURSIVE DiffWtLoop(_, _, _, _, _)
DiffWtLoop(wts, i, j, diffWts, diffWtCounts) ==
  IF i > Len(wts) THEN [diffWts |-> diffWts, diffWtCounts |-> diffWtCounts]
  ELSE IF wts[j] = wts[i]
    THEN DiffWtLoop(wts, i + 1, j, diffWts,
           [diffWtCounts EXCEPT ![Len(diffWtCounts)] = @ + 1])
  ELSE DiffWtLoop(wts, i + 1, i, Append(diffWts, wts[i]), Append(diffWtCounts, 1))

\* lines 1784-1788 with >= in the test of line 1786
RECURSIVE TransLoop_orEqual(_, _, _, _, _)
TransLoop_orEqual(diffWts, diffWtCounts, i, wtSoFar, acc) ==
  IF i > Len(diffWts) THEN acc
  ELSE TransLoop_orEqual(diffWts, diffWtCounts, i + 1,
                         wtSoFar + diffWts[i] * diffWtCounts[i],
                         IF diffWts[i] >= wtSoFar THEN Append(acc, diffWts[i]) ELSE acc)

\* lines 1784-1788
RECURSIVE TransLoop(_, _, _, _, _)
TransLoop(diffWts, diffWtCounts, i, wtSoFar, acc) ==
  IF i > Len(diffWts) THEN acc
  ELSE TransLoop(diffWts, diffWtCounts, i + 1,
                 wtSoFar + diffWts[i] * diffWtCounts[i],
                 IF diffWts[i] > wtSoFar THEN Append(acc, diffWts[i]) ELSE acc)

computeWtInfo(w) ==
  IF Len(w.soft_clswts) = 0
    THEN [w EXCEPT !.wt_max = 0, !.transitionWts = <<>>]
  ELSE LET wts == SortInts(w.soft_clswts)
           d == DiffWtLoop(wts, 1, 1, <<wts[1]>>, <<0>>)
       IN [w EXCEPT !.wt_max = wts[Len(wts)],
                    !.transitionWts =
                      TransLoop(d.diffWts, d.diffWtCounts, 2,
                                d.diffWts[1] * d.diffWtCounts[1], <<>>)]

(* ------------------------------------------------------------------ *)
(* Wcnf::simpleHarden.  The result is the set of stores the pass can   *)
(* leave, one for each run of oracle answers.                          *)
(* ------------------------------------------------------------------ *)
SoftsAtLeast(w, t) ==
  LET idx == {i \in 1..nSofts(w) : w.soft_clswts[i] >= t}
  IN [i \in 1..Cardinality(idx) |->
        w.soft_cls[CHOOSE k \in idx : Cardinality({m \in idx : m < k}) = i - 1]]

\* the loop of lines 782-814 taking every answer but l_False as l_True
RECURSIVE HardenLoop_undefIsTrue(_, _, _, _, _)
HardenLoop_undefIsTrue(w, strong, i, maxHardenWt, top) ==
  IF i < 1 THEN {[m |-> maxHardenWt, top |-> top]}
  ELSE UNION {IF a # "F"
                THEN HardenLoop_undefIsTrue(w, strong, i - 1, w.transitionWts[i],
                                            IF i = Len(w.transitionWts) THEN a ELSE top)
                ELSE {[m |-> maxHardenWt,
                       top |-> IF i = Len(w.transitionWts) THEN a ELSE top]}
              : a \in solvePropBudget(w.hard_cls \o SoftsAtLeast(w, w.transitionWts[i]))}

\* lines 782-814: the values maxHardenWt can end with, each with `top`, what
\* the oracle said of the highest tier ("F" also when theory_is_unsat stopped
\* the loop there, "none" when there is no tier).  i runs down the transition
\* weights; the loop stops at the first tier that is not answered l_True.
RECURSIVE HardenLoop(_, _, _, _, _)
HardenLoop(w, strong, i, maxHardenWt, top) ==
  IF i < 1 THEN {[m |-> maxHardenWt, top |-> top]}
  ELSE LET cls == w.hard_cls \o SoftsAtLeast(w, w.transitionWts[i]) IN
    IF theory_is_unsat(cls, strong)
      THEN {[m |-> maxHardenWt, top |-> IF i = Len(w.transitionWts) THEN "F" ELSE top]}
    ELSE UNION {IF a = "T"
                  THEN HardenLoop(w, strong, i - 1, w.transitionWts[i],
                                  IF i = Len(w.transitionWts) THEN a ELSE top)
                  ELSE {[m |-> maxHardenWt,
                         top |-> IF i = Len(w.transitionWts) THEN a ELSE top]}
                : a \in solvePropBudget(cls)}

\* lines 821-838: move the softs of weight >= maxHardenWt to the hards
RECURSIVE HardenMove(_, _, _, _, _)
HardenMove(w, maxHardenWt, i, tmp, tmpWts) ==
  IF i > nSofts(w)
    THEN [w EXCEPT !.soft_cls = tmp, !.soft_clswts = tmpWts,
                   !.total_cls_wt = SeqSum(tmpWts)]
  ELSE IF w.soft_clswts[i] >= maxHardenWt
    THEN HardenMove(_addHardClause(w, w.soft_cls[i]), maxHardenWt, i + 1, tmp, tmpWts)
  ELSE HardenMove(w, maxHardenWt, i + 1, Append(tmp, w.soft_cls[i]),
                  Append(tmpWts, w.soft_clswts[i]))

\* the runs of simpleHarden: the store each leaves, with the oracle's answer
\* on the highest tier
simpleHardenRuns(w) ==
  IF w.unsat THEN {[store |-> w, top |-> "none"]}
  ELSE LET w1 == computeWtInfo(w) IN
    UNION {
      IF theory_is_unsat(w1.hard_cls, strong)
        THEN {[store |-> [w1 EXCEPT !.unsat = TRUE], top |-> "none"]}
      ELSE {[store |-> IF r.m > w1.wt_max THEN w1
                       ELSE HardenMove(w1, r.m, 1, <<>>, <<>>),
             top |-> r.top] :
              r \in HardenLoop(w1, strong, Len(w1.transitionWts), w1.wt_max + 1, "none")}
      : strong \in BOOLEAN}

simpleHarden(w) == {r.store : r \in simpleHardenRuns(w)}

(* ------------------------------------------------------------------ *)
(* Wcnf::get_binaries and the edge map built in subEqsAndUnits.        *)
(* ------------------------------------------------------------------ *)
RECURSIVE get_binaries(_, _)
get_binaries(cls, forced) ==
  IF cls = <<>> THEN <<>>
  ELSE LET c == Head(cls)
           undef == SelectSeq(c, LAMBDA l : fixedValue(forced, l) = "U")
           sat == \E i \in 1..Len(c) : fixedValue(forced, c[i]) = "T"
       IN (IF ~sat /\ Len(undef) = 2 THEN undef ELSE <<>>)
          \o get_binaries(Tail(cls), forced)

\* lines 283-292; edges[toInt(l) + 1] lists the partners of l in binary clauses
RECURSIVE BuildEdges(_, _, _)
BuildEdges(binaries, i, edges) ==
  IF i > Len(binaries) THEN edges
  ELSE LET x == binaries[i]
           y == binaries[i + 1]
           max_index == Max(Max(toInt(x), toInt(Neg(x))), Max(toInt(y), toInt(Neg(y))))
           e1 == IF max_index >= Len(edges)
                   THEN edges \o [k \in 1..(max_index + 1 - Len(edges)) |-> <<>>]
                   ELSE edges
           e2 == [e1 EXCEPT ![toInt(x) + 1] = Append(@, y)]
           e3 == [e2 EXCEPT ![toInt(y) + 1] = Append(@, x)]
       IN BuildEdges(binaries, i + 2, e3)

(* ------------------------------------------------------------------ *)
(* Wcnf::binary_scc: the iterative path-based SCC search.              *)
(* dfsnum and comp_num are indexed by node + 1.                        *)
(* ------------------------------------------------------------------ *)
\* lines 555-561 without the test of line 559 for the dual component
RECURSIVE SccPop_keepsDual(_, _, _, _, _, _)
SccPop_keepsDual(unfinished, comp_num, comp_count, node, neg_node, scc) ==
  LET w == unfinished[Len(unfinished)]
      u1 == SubSeq(unfinished, 1, Len(unfinished) - 1)
      c1 == [comp_num EXCEPT ![w + 1] = comp_count]
      s1 == Append(scc, w)
  IN IF w # node THEN SccPop_keepsDual(u1, c1, comp_count, node, neg_node, s1)
     ELSE [unfinished |-> u1, comp_num |-> c1, scc |-> s1]

\* lines 555-561: pop the component of `node` off `unfinished`
RECURSIVE SccPop(_, _, _, _, _, _)
SccPop(unfinished, comp_num, comp_count, node, neg_node, scc) ==
  LET w == unfinished[Len(unfinished)]
      u1 == SubSeq(unfinished, 1, Len(unfinished) - 1)
      c1 == [comp_num EXCEPT ![w + 1] = comp_count]
      s1 == IF c1[neg_node + 1] = -1 THEN Append(scc, w) ELSE scc
  IN IF w # node THEN SccPop(u1, c1, comp_count, node, neg_node, s1)
     ELSE [unfinished |-> u1, comp_num |-> c1, scc |-> s1]

\* line 574
RECURSIVE SccMerge(_, _, _)
SccMerge(roots, dfsnum, w) ==
  IF dfsnum[roots[Len(roots)] + 1] > dfsnum[w + 1]
    THEN SccMerge(SubSeq(roots, 1, Len(roots) - 1), dfsnum, w)
    ELSE roots

\* one pass of the while loop at line 534
SccVisit(edges, st) ==
  LET top == st.dfs_stack[Len(st.dfs_stack)]
      node == top[1]
      neg_node == toInt(Neg(node))
      childi == top[2]
      s0 == IF childi = 0
              THEN [st EXCEPT !.dfsnum[node + 1] = st.dfscount,
                              !.dfscount = st.dfscount + 1,
                              !.unfinished = Append(st.unfinished, node),
                              !.roots = Append(st.roots, node)]
              ELSE st
  IN IF childi >= Len(edges[neg_node + 1])
       THEN LET s1 == [s0 EXCEPT !.dfs_stack = SubSeq(@, 1, Len(@) - 1)] IN
         IF node = s1.roots[Len(s1.roots)]
           THEN LET p == SccPop(s1.unfinished, s1.comp_num, s1.comp_count,
                                node, neg_node, <<>>)
                IN [s1 EXCEPT !.unfinished = p.unfinished,
                              !.comp_num = p.comp_num,
                              !.comp_count = s1.comp_count + 1,
                              !.roots = SubSeq(@, 1, Len(@) - 1),
                              !.all_sccs = IF Len(p.scc) > 1 THEN Append(@, p.scc) ELSE @]
           ELSE s1
     ELSE LET s1 == [s0 EXCEPT !.dfs_stack[Len(s0.dfs_stack)] = <<node, childi + 1>>]
              w == toInt(edges[neg_node + 1][childi + 1])
          IN IF s1.dfsnum[w + 1] = -1
               THEN [s1 EXCEPT !.dfs_stack = Append(@, <<w, 0>>)]
             ELSE IF s1.comp_num[w + 1] = -1
               THEN [s1 EXCEPT !.roots = SccMerge(s1.roots, s1.dfsnum, w)]
             ELSE s1

RECURSIVE SccLoop(_, _, _)
SccLoop(edges, nd, st) ==
  IF st.dfs_stack # <<>> THEN SccLoop(edges, nd, SccVisit(edges, st))
  ELSE IF nd >= Len(edges) THEN st.all_sccs
  ELSE IF st.dfsnum[nd + 1] # -1 THEN SccLoop(edges, nd + 1, st)
  ELSE SccLoop(edges, nd + 1, [st EXCEPT !.dfs_stack = <<<<nd, 0>>>>])

binary_scc(edges) ==
  SccLoop(edges, 0,
          [unfinished |-> <<>>, roots |-> <<>>,
           dfsnum |-> [k \in 1..Len(edges) |-> -1], dfscount |-> 0,
           comp_num |-> [k \in 1..Len(edges) |-> -1], comp_count |-> 0,
           dfs_stack |-> <<>>, all_sccs |-> <<>>])

(* ------------------------------------------------------------------ *)
(* Wcnf::reduce_by_eqs_and_units.  Returns [w, cls]: the store with    *)
(* unsat, base_cost, soft_clswts and total_cls_wt as the call leaves   *)
(* them, and the clause vector the call returns.                       *)
(* ------------------------------------------------------------------ *)
\* lines 436-439; truth_vals[toInt(l) + 1] is "T", "F" or "U"
RECURSIVE TruthVals(_, _)
TruthVals(units, tv) ==
  IF units = <<>> THEN tv
  ELSE LET lt == Head(units)
       IN TruthVals(Tail(units),
            [tv EXCEPT ![toInt(lt) + 1] = "T", ![toInt(Neg(lt)) + 1] = "F"])

\* lines 441-445
RECURSIVE EqLits(_, _)
EqLits(sccs, eqLit) ==
  IF sccs = <<>> THEN eqLit
  ELSE LET scc == Head(sccs)
           upd == [k \in 1..Len(eqLit) |->
                     IF \E i \in 1..Len(scc) : toInt(scc[i]) + 1 = k THEN scc[1]
                     ELSE IF \E i \in 1..Len(scc) : toInt(Neg(scc[i])) + 1 = k
                       THEN Neg(scc[1])
                     ELSE eqLit[k]]
       IN EqLits(Tail(sccs), upd)

\* lines 453-460: the literals kept before the first true one
RECURSIVE ReduceCls(_, _, _, _)
ReduceCls(cl, eqLit, tv, c) ==
  IF cl = <<>> THEN [isSat |-> FALSE, c |-> c]
  ELSE LET eqL == eqLit[toInt(Head(cl)) + 1] IN
    IF tv[toInt(eqL) + 1] = "T" THEN [isSat |-> TRUE, c |-> c]
    ELSE ReduceCls(Tail(cl), eqLit, tv,
                   IF tv[toInt(eqL) + 1] = "U" THEN Append(c, eqL) ELSE c)

RECURSIVE ReduceLoop(_, _, _, _, _, _, _)
ReduceLoop(w, clauses, softs, eqLit, tv, i, tmp) ==
  IF i > Len(clauses)
    THEN [w |-> IF softs
                  THEN [w EXCEPT !.soft_clswts = SubSeq(@, 1, Len(tmp)),
                                 !.total_cls_wt = SeqSum(SubSeq(w.soft_clswts, 1, Len(tmp)))]
                  ELSE w,
          cls |-> tmp]
  ELSE LET r == ReduceCls(clauses[i], eqLit, tv, <<>>) IN
    IF r.isSat THEN ReduceLoop(w, clauses, softs, eqLit, tv, i + 1, tmp)
    ELSE IF r.c = <<>>
      THEN IF ~softs
        THEN [w |-> [w EXCEPT !.unsat = TRUE], cls |-> <<>>]
        ELSE ReduceLoop([w EXCEPT !.base_cost = @ + w.soft_clswts[i]],
                        clauses, softs, eqLit, tv, i + 1, tmp)
    ELSE LET p == prepareClause(r.c) IN
      IF p.ok
        THEN ReduceLoop(IF softs
                          THEN [w EXCEPT !.soft_clswts[Len(tmp) + 1] = w.soft_clswts[i]]
                          ELSE w,
                        clauses, softs, eqLit, tv, i + 1, Append(tmp, p.lits))
        ELSE ReduceLoop(w, clauses, softs, eqLit, tv, i + 1, tmp)

reduce_by_eqs_and_units(w, clauses, softs) ==
  IF w.unsat THEN [w |-> w, cls |-> <<>>]
  ELSE ReduceLoop(w, clauses, softs,
         EqLits(w.all_scc, [k \in 1..(2 * nVars(w)) |-> k - 1]),
         TruthVals(w.hard_units, [k \in 1..(2 * nVars(w)) |-> "U"]),
         1, <<>>)

\* lines 304-305 with soft_clswts left as they were before the call
ReduceBoth_keepsWts(w) ==
  LET h == reduce_by_eqs_and_units(w, w.hard_cls, FALSE)
      w1 == [h.w EXCEPT !.hard_cls = h.cls]
      s == reduce_by_eqs_and_units(w1, w1.soft_cls, TRUE)
  IN [s.w EXCEPT !.soft_cls = s.cls, !.soft_clswts = w.soft_clswts]

\* hard_cls = reduce(hard_cls, false); soft_cls = reduce(soft_cls, true);
ReduceBoth(w) ==
  LET h == reduce_by_eqs_and_units(w, w.hard_cls, FALSE)
      w1 == [h.w EXCEPT !.hard_cls = h.cls]
      s == reduce_by_eqs_and_units(w1, w1.soft_cls, TRUE)
  IN [s.w EXCEPT !.soft_cls = s.cls]

(* ------------------------------------------------------------------ *)
(* Wcnf::subEqsAndUnits.                                               *)
(* ------------------------------------------------------------------ *)
\* lines 311-334: unit hards, then pure literals, appended to hard_units
PuresAndUnits(w) ==
  LET all == w.hard_cls \o w.soft_cls
      lits == Range(Flatten(all))
      hunits == SelectSeq(w.hard_cls, LAMBDA c : Len(c) = 1)
      newunits == [i \in 1..Len(hunits) |-> hunits[i][1]]
      pure(v) == IF mkLit(v, TRUE) \in lits /\ mkLit(v, FALSE) \notin lits
                   THEN <<mkLit(v, TRUE)>>
                 ELSE IF mkLit(v, FALSE) \in lits /\ mkLit(v, TRUE) \notin lits
                   THEN <<mkLit(v, FALSE)>>
                 ELSE <<>>
  IN w.hard_units \o newunits \o Flatten([k \in 1..nVars(w) |-> pure(k - 1)])

subEqsAndUnitsWith(w, wcnf_eqs, strong) ==
  IF theory_is_unsat(w.hard_cls, strong) THEN [w EXCEPT !.unsat = TRUE]
  ELSE
    LET forced == getForced(w.hard_cls, strong)
        sccs == IF wcnf_eqs
                  THEN binary_scc(BuildEdges(get_binaries(w.hard_cls, forced), 1, <<>>))
                  ELSE <<>>
        w1 == [w EXCEPT !.hard_units = forced, !.all_scc = sccs]
        w2 == IF sccs # <<>> \/ forced # <<>> THEN ReduceBoth(w1) ELSE w1
        more == PuresAndUnits(w2)
        solver2 == w.hard_cls \o [i \in 1..Len(more) |-> <<more[i]>>]
    IN IF Len(more) > Len(w2.hard_units)
         THEN IF theory_is_unsat(solver2, strong)
                THEN [w2 EXCEPT !.hard_units = more, !.unsat = TRUE]
                ELSE ReduceBoth([w2 EXCEPT !.hard_units = getForced(solver2, strong)])
         ELSE w2

subEqsAndUnits(w, wcnf_eqs) ==
  IF w.unsat THEN {w}
  ELSE {subEqsAndUnitsWith(w, wcnf_eqs, strong) : strong \in BOOLEAN}

(* ------------------------------------------------------------------ *)
(* Wcnf::remDupCls with initClsData and eqVecs.                        *)
(* A ClsData record is [index, hash, w, origHard]; index counts from 1.*)
(* ------------------------------------------------------------------ *)
HashMod == 4

\* hashCode of maxhs/utils/hash.h: a hash of the integers of the range.  Equal
\* sequences hash alike and different ones may collide.
hashCode(s) == SeqSum(s) % HashMod

initClsData(w) ==
  [i \in 1..nHards(w) |->
     [index |-> i,
      hash |-> IF Len(w.hard_cls[i]) = 1 THEN hashCode(<<var(w.hard_cls[i][1])>>)
               ELSE hashCode(w.hard_cls[i]),
      w |-> -1, origHard |-> TRUE]]
  \o
  [i \in 1..nSofts(w) |->
     [index |-> i,
      hash |-> IF Len(w.soft_cls[i]) = 1 THEN hashCode(<<var(w.soft_cls[i][1])>>)
               ELSE hashCode(w.soft_cls[i]),
      w |-> w.soft_clswts[i], origHard |-> FALSE]]

\* sort(cdata.begin(), cdata.end(), byHash): std::sort leaves the order of
\* records of equal hash unspecified, so every such order is a result.
RECURSIVE Perms(_)
Perms(S) ==
  IF S = {} THEN {<<>>}
  ELSE UNION {{<<x>> \o p : p \in Perms(S \ {x})} : x \in S}

SortedByHash(cdata) ==
  {[i \in 1..Len(cdata) |-> cdata[p[i]]] :
     p \in {q \in Perms(1..Len(cdata)) :
              \A i \in 1..(Len(cdata) - 1) : cdata[q[i]].hash <= cdata[q[i + 1]].hash}}

\* Wcnf::eqVecs.  A record is looked up in hard_cls when its w is negative.
\* An index past the end of the vector is an out-of-bounds read: `oob` is what
\* the comparison then answers.
eqVecs(st, a, b, oob) ==
  LET pa == IF a.w < 0 THEN st.hard_cls ELSE st.soft_cls
      pb == IF b.w < 0 THEN st.hard_cls ELSE st.soft_cls
  IN IF a.index > Len(pa) \/ b.index > Len(pb) THEN oob
     ELSE pa[a.index] = pb[b.index]

\* line 692: the record a is looked up in hard_cls (a.w < 0) though its index
\* is one of soft_cls
SoftReadAsHard(a) == a.w < 0 /\ ~a.origHard

\* the body of the loop over j, lines 607-648
DupPair(st, i, j, ihard, oob) ==
  LET cd == st.cdata
      i_index == cd[i].index
      j_index == cd[j].index
      jhard == cd[j].w < 0
      vi == IF ihard THEN st.hard_cls[i_index] ELSE st.soft_cls[i_index]
      vj == IF jhard THEN st.hard_cls[j_index] ELSE st.soft_cls[j_index]
      \* vi[0] = vj[0] writes through the proxy into the stored clause
      setvi == IF ihard THEN [st EXCEPT !.hard_cls[i_index][1] = vj[1]]
               ELSE [st EXCEPT !.soft_cls[i_index][1] = vj[1]]
      \* eqVecs is called: note whether it reads a record created from a
      \* soft clause in hard_cls
      noted == [st EXCEPT !.misread = @ \/ SoftReadAsHard(cd[i])
                                        \/ SoftReadAsHard(cd[j])]
  IN
  IF Len(vi) = 1 /\ Len(vj) = 1 /\ vi[1] = Neg(vj[1])
    THEN IF ihard /\ jhard THEN [st EXCEPT !.unsat = TRUE]
      ELSE IF ihard \/ jhard
        THEN LET s1 == IF jhard THEN setvi ELSE st
                 cost == IF jhard THEN st.soft_clswts[i_index]
                         ELSE st.soft_clswts[j_index]
             IN [s1 EXCEPT !.base_cost = @ + cost,
                           !.cdata[j].w = 0, !.cdata[i].w = -1]
      ELSE IF cd[i].w < cd[j].w
        THEN [setvi EXCEPT !.base_cost = @ + cd[i].w,
                           !.cdata[i].w = cd[j].w - cd[i].w,
                           !.cdata[j].w = 0]
      ELSE [st EXCEPT !.base_cost = @ + cd[j].w,
                      !.cdata[i].w = cd[i].w - cd[j].w,
                      !.cdata[j].w = 0]
  ELSE IF eqVecs(st, cd[i], cd[j], oob)
    THEN IF ihard \/ jhard
      THEN [noted EXCEPT !.cdata[i].w = -1, !.cdata[j].w = 0]
      ELSE [noted EXCEPT !.cdata[i].w = cd[i].w + cd[j].w, !.cdata[j].w = 0]
  ELSE noted

\* the loop over j leaving after the first record it handles
DupInner_firstOnly(st, i, j, ihard, oob) ==
  IF st.unsat \/ j > Len(st.cdata) \/ st.cdata[i].hash # st.cdata[j].hash THEN st
  ELSE DupPair(st, i, j, ihard, oob)

RECURSIVE DupInner(_, _, _, _, _)
DupInner(st, i, j, ihard, oob) ==
  IF st.unsat \/ j > Len(st.cdata) \/ st.cdata[i].hash # st.cdata[j].hash THEN st
  ELSE IF st.cdata[j].w = 0 THEN DupInner(st, i, j + 1, ihard, oob)
  ELSE DupInner(DupPair(st, i, j, ihard, oob), i, j + 1, ihard, oob)

RECURSIVE DupOuter(_, _, _)
DupOuter(st, i, oob) ==
  IF st.unsat \/ i > Len(st.cdata) THEN st
  ELSE IF st.cdata[i].w = 0 THEN DupOuter(st, i + 1, oob)
  ELSE DupOuter(DupInner(st, i, i + 1, st.cdata[i].w < 0, oob), i + 1, oob)

\* lines 653-672: the records in index order (a hard before the soft of the
\* same index), each read from the population it was created for
DupRebuild(w, st) ==
  LET cd == st.cdata
      origH == SelectSeq(cd, LAMBDA r : r.origHard)
      origS == SelectSeq(cd, LAMBDA r : ~r.origHard)
      n == Max(nHards(w), nSofts(w))
      at(pop, k) == SelectSeq(pop, LAMBDA r : r.index = k)
      byIndex == Flatten([k \in 1..n |-> at(origH, k) \o at(origS, k)])
      vec(r) == IF r.origHard THEN st.hard_cls[r.index] ELSE st.soft_cls[r.index]
      hs == SelectSeq(byIndex, LAMBDA r : r.w < 0)
      ss == SelectSeq(byIndex, LAMBDA r : r.w > 0)
      tmp_wts == [k \in 1..Len(ss) |-> ss[k].w]
  IN [w EXCEPT !.hard_cls = [k \in 1..Len(hs) |-> vec(hs[k])],
               !.soft_cls = [k \in 1..Len(ss) |-> vec(ss[k])],
               !.soft_clswts = tmp_wts,
               !.total_cls_wt = SeqSum(tmp_wts),
               !.base_cost = st.base_cost]

\* the state of the loops at line 599; misread: eqVecs has read a record
\* in the other population
DupStart(w, cdata) ==
  [cdata |-> cdata, hard_cls |-> w.hard_cls, soft_cls |-> w.soft_cls,
   soft_clswts |-> w.soft_clswts, base_cost |-> w.base_cost, unsat |-> FALSE,
   misread |-> FALSE]

remDupClsWith(w, cdata, oob) ==
  LET st == DupOuter(DupStart(w, cdata), 1, oob)
  IN IF st.unsat
       THEN [w EXCEPT !.unsat = TRUE, !.hard_cls = st.hard_cls,
                      !.soft_cls = st.soft_cls, !.base_cost = st.base_cost]
       ELSE DupRebuild(w, st)

remDupCls(w) ==
  IF w.noDups \/ w.unsat THEN {w}
  ELSE LET w0 == [w EXCEPT !.noDups = TRUE] IN
    {remDupClsWith(w0, cd, oob) : cd \in SortedByHash(initClsData(w0)), oob \in BOOLEAN}

(* ------------------------------------------------------------------ *)
(* Bvars (maxhs/core/Bvars.h): the selector literal of each soft.      *)
(* A unit soft (l) reuses ~l; a longer soft gets a fresh variable      *)
(* above the variables of the formula.  [blits, maxbvar, wts]          *)
(* ------------------------------------------------------------------ *)
Bvars(w) ==
  LET nonunit == {i \in 1..nSofts(w) : Len(w.soft_cls[i]) # 1}
      fresh(i) == w.maxvar + 1 + Cardinality({k \in nonunit : k < i})
  IN [blits |-> [i \in 1..nSofts(w) |->
                   IF i \in nonunit THEN mkLit(fresh(i), FALSE)
                   ELSE Neg(w.soft_cls[i][1])],
      wts |-> w.soft_clswts,
      maxbvar |-> w.maxvar + Cardinality(nonunit)]

litOfCls(bv, i) == bv.blits[i]
isBvar(bv, v) == \E i \in 1..Len(bv.blits) : var(bv.blits[i]) = v
clsIndex(bv, l) ==
  CHOOSE i \in 1..Len(bv.blits) :
    /\ var(bv.blits[i]) = var(l)
    /\ \A k \in 1..Len(bv.blits) : var(bv.blits[k]) = var(l) => k <= i
isCore(bv, l) == isBvar(bv, var(l)) /\ bv.blits[clsIndex(bv, l)] = l
isNonCore(bv, l) == isBvar(bv, var(l)) /\ bv.blits[clsIndex(bv, l)] = Neg(l)
bvWt(bv, v) == bv.wts[clsIndex(bv, mkLit(v, FALSE))]
n_vars(bv) == bv.maxbvar + 1

(* ------------------------------------------------------------------ *)
(* MXFinder.  The finder state fs is                                   *)
(*   [marks, cached, cache, mem, toProcess, twos, mxs, loops, phase],  *)
(* with reports, the log of the oracle's answers,                      *)
(* and ctx = [bv, imp, limit] holds the Bvars, the oracle's answers to *)
(* findImplications (a sequence per literal) and the memory limit.     *)
(* ------------------------------------------------------------------ *)
inmx == 1
in2s == 2
SizeofLit == 4
\* static_cast<uint64_t>(1024 * 1024) * params.mx_mem_limit, with the
\* megabyte scaled down to one literal so that small formulas reach it
MxMemUnit == 4
CpuPollPeriod == 500

\* MXFinder::fbeq: the clauses given to the oracle
fbeqClauses(w, bv) ==
  w.hard_cls \o
  Flatten([i \in 1..nSofts(w) |->
     IF Len(w.soft_cls[i]) > 1
       THEN <<Append(w.soft_cls[i], bv.blits[i])>> \o
            [k \in 1..Len(w.soft_cls[i]) |->
               <<Neg(w.soft_cls[i][k]), Neg(bv.blits[i])>>]
       ELSE <<>>])

\* not_coreMX with the weight test of line 1426 left out
not_coreMX_anyWt(ctx, fs, lWT, l1) ==
  fs.marks[l1] = inmx \/ ~isNonCore(ctx.bv, l1)

\* the lambdas of lines 1424-1431: l1 is no partner of a core (non-core) literal
not_coreMX(ctx, fs, lWT, l1) ==
  fs.marks[l1] = inmx \/ ~isNonCore(ctx.bv, l1) \/ bvWt(ctx.bv, var(l1)) # lWT
not_nonCoreMX(ctx, fs, lWT, l1) ==
  fs.marks[l1] = inmx \/ ~isCore(ctx.bv, l1) \/ bvWt(ctx.bv, var(l1)) # lWT

\* what a call findImplications(l, imps) told: l implies each literal of imps
ImpliedPairs(l, imps) == {<<l, imps[k]>> : k \in 1..Len(imps)}

\* MXFinder::getMXLits; returns [fs, v].  fs.reports is the record of the
\* answers of the solver (line 1448) that lines 1450-1455 have kept.
getMXLits(ctx, fs, l) ==
  IF l \notin fs.cached
    THEN IF fs.mem >= ctx.limit
      THEN [fs |-> [fs EXCEPT !.cached = @ \cup {l}, !.cache[l] = <<>>], v |-> <<>>]
      ELSE LET lWT == bvWt(ctx.bv, var(l))
               kept == IF isCore(ctx.bv, l)
                         THEN SelectSeq(ctx.imp[l],
                                        LAMBDA l1 : ~not_coreMX(ctx, fs, lWT, l1))
                         ELSE SelectSeq(ctx.imp[l],
                                        LAMBDA l1 : ~not_nonCoreMX(ctx, fs, lWT, l1))
               imps == [k \in 1..Len(kept) |-> Neg(kept[k])]
           IN [fs |-> [fs EXCEPT !.cached = @ \cup {l}, !.cache[l] = imps,
                                 !.mem = @ + SizeofLit * Len(imps),
                                 !.reports = @ \cup ImpliedPairs(l, kept)],
               v |-> imps]
  ELSE LET v == SelectSeq(fs.cache[l], LAMBDA x : fs.marks[x] # inmx)
       IN [fs |-> [fs EXCEPT !.cache[l] = v], v |-> v]

\* lines 1304-1312: interSize[clsIndex(l)] for the candidates, as a function
\* on clause indices; the getMXLits calls update the cache
RECURSIVE InterSizes(_, _, _, _, _, _)
\* lines 1306-1311 for orig[i], r the answer of getMXLits(orig[i])
InterSizeOf(ctx, r, orig, cands, i, interSize) ==
  InterSizes(ctx, r.fs, orig, cands, i + 1,
             [interSize EXCEPT ![clsIndex(ctx.bv, orig[i])] =
                Cardinality({k \in 1..Len(r.v) : r.v[k] \in cands})])

InterSizes(ctx, fs, orig, cands, i, interSize) ==
  IF i > Len(orig) THEN [fs |-> fs, interSize |-> interSize]
  ELSE InterSizeOf(ctx, getMXLits(ctx, fs, orig[i]), orig, cands, i, interSize)

\* sort(origCandidates, mxSize): decreasing interSize; equal keys keep their order
RECURSIVE SortBySize(_, _, _)
SortBySize(bv, s, interSize) ==
  IF s = <<>> THEN <<>>
  ELSE LET key(l) == interSize[clsIndex(bv, l)]
           m == CHOOSE i \in 1..Len(s) :
                  /\ \A j \in 1..Len(s) : key(s[i]) >= key(s[j])
                  /\ \A j \in 1..(i - 1) : key(s[j]) < key(s[i])
       IN <<s[m]>> \o SortBySize(bv, SubSeq(s, 1, m - 1) \o SubSeq(s, m + 1, Len(s)),
                                 interSize)

\* lines 1333-1381
RECURSIVE GrowLoop(_, _, _, _, _, _)
\* lines 1347-1363 without the pruning of lines 1350-1363
GrowTake_noPrune(ctx, r, orig, cani, cands, mx, l) ==
  GrowLoop(ctx, r.fs, orig, cani + 1, cands \ {l}, Append(mx, l))

\* lines 1346-1380: l joins the mutex; r is the answer of getMXLits(l)
GrowTake(ctx, r, orig, cani, cands, mx, l) ==
  GrowLoop(ctx, r.fs, orig, cani + 1, (cands \ {l}) \cap Range(r.v), Append(mx, l))

GrowLoop(ctx, fs, orig, cani, cands, mx) ==
  IF cands = {} THEN [fs |-> fs, mx |-> mx]
  ELSE IF orig[cani] \notin cands THEN GrowLoop(ctx, fs, orig, cani + 1, cands, mx)
  ELSE GrowTake(ctx, getMXLits(ctx, fs, orig[cani]), orig, cani, cands, mx, orig[cani])

\* lines 1313-1381: r1 is the answer of InterSizes
GrowSorted(ctx, r1, origCandidates, cands, start) ==
  GrowLoop(ctx, r1.fs, SortBySize(ctx.bv, origCandidates, r1.interSize), 1, cands,
           <<start>>)

\* lines 1298-1381: r0 is the answer of getMXLits(start)
GrowFrom(ctx, r0, start) ==
  GrowSorted(ctx,
             InterSizes(ctx, r0.fs, r0.v, Range(r0.v), 1,
                        [i \in 1..Len(ctx.bv.blits) |-> 0]),
             r0.v, Range(r0.v), start)

\* MXFinder::growMx; returns [fs, mx]
growMx(ctx, fs, start) == GrowFrom(ctx, getMXLits(ctx, fs, start), start)

\* lines 1213-1218 without the marking
Commit_noMarks(fs, tmp) == [fs EXCEPT !.mxs = Append(@, tmp)]

\* lines 1213-1218: mark b and ~b of every member and record the mutex
Commit(fs, tmp) ==
  [fs EXCEPT !.marks = [l \in DOMAIN fs.marks |->
                          IF l \in Range(tmp) \/ Neg(l) \in Range(tmp)
                            THEN inmx ELSE fs.marks[l]],
             !.mxs = Append(@, tmp)]

\* lines 1186-1192
RECURSIVE FindStart(_, _, _, _, _, _)
\* lines 1187-1191 for mx[i], r the answer of getMXLits(mx[i])
FindStartOf(ctx, r, mx, i, size, start) ==
  IF Len(r.v) > size THEN FindStart(ctx, r.fs, mx, i + 1, Len(r.v), mx[i])
  ELSE FindStart(ctx, r.fs, mx, i + 1, size, start)

FindStart(ctx, fs, mx, i, size, start) ==
  IF i > Len(mx) THEN [fs |-> fs, start |-> start]
  ELSE FindStartOf(ctx, getMXLits(ctx, fs, mx[i]), mx, i, size, start)

Pop(s) == SubSeq(s, 1, Len(s) - 1)

\* lines 1199-1219 without the mark and the twos entry of lines 1203-1208
PhaseAGrown_noMark(g, blit, start) ==
  IF Len(g.mx) <= 2 THEN g.fs ELSE Commit(g.fs, g.mx)

\* lines 1199-1219: g is the answer of growMx(start)
PhaseAGrown(g, blit, start) ==
  IF Len(g.mx) <= 2
    THEN [g.fs EXCEPT !.marks[blit] = in2s,
                      !.twos = IF Len(g.mx) = 2 THEN Append(@, start) ELSE @]
    ELSE Commit(g.fs, g.mx)

\* lines 1193-1219: s is the answer of FindStart
PhaseAStart(ctx, s, blit) == PhaseAGrown(growMx(ctx, s.fs, s.start), blit, s.start)

\* lines 1167-1219: r is the answer of getMXLits(blit)
PhaseAWith(ctx, r, blit) ==
  IF Len(r.v) <= 1
    THEN IF Len(r.v) = 1
      THEN [r.fs EXCEPT !.marks[blit] = in2s, !.twos = Append(@, blit),
                        !.toProcess = Pop(@)]
      ELSE [r.fs EXCEPT !.toProcess = Pop(@)]
  ELSE PhaseAStart(ctx, FindStart(ctx, r.fs, r.v, 1, Len(r.v), blit), blit)

\* lines 1150-1219: blit is toProcess.back(), f0 the state with loops counted
PhaseABlit(ctx, f0, blit) ==
  IF f0.marks[blit] # 0 THEN [f0 EXCEPT !.toProcess = Pop(@)]
  ELSE PhaseAWith(ctx, getMXLits(ctx, f0, blit), blit)

\* the pass without the test of lines 1132-1148
PhaseAStep_noLimit(ctx, fs, timeUp) ==
  PhaseABlit(ctx, [fs EXCEPT !.loops = @ + 1], fs.toProcess[Len(fs.toProcess)])

\* one pass of the loop at line 1126; timeUp: the clock is past mx_cpu_lim
PhaseAStep(ctx, fs, timeUp) ==
  IF fs.mem >= ctx.limit
     \/ (ctx.cpu_lim > 0 /\ (fs.loops + 1) % CpuPollPeriod = 0 /\ timeUp)
    THEN [fs EXCEPT !.loops = @ + 1, !.timedOut = TRUE, !.phase = "done"]
  ELSE PhaseABlit(ctx, [fs EXCEPT !.loops = @ + 1], fs.toProcess[Len(fs.toProcess)])

\* lines 1232-1239: g is the answer of growMx(blit)
PhaseBGrown(g) == IF Len(g.mx) > 1 THEN Commit(g.fs, g.mx) ELSE g.fs

\* lines 1224-1239: blit is twos.back(), f0 the state with it popped
PhaseBBlit(ctx, f0, blit) ==
  IF f0.marks[blit] = inmx THEN f0 ELSE PhaseBGrown(growMx(ctx, f0, blit))

\* one pass of the loop at line 1223
PhaseBStep(ctx, fs) ==
  PhaseBBlit(ctx, [fs EXCEPT !.twos = Pop(@)], fs.twos[Len(fs.twos)])

\* the state after fbeq() and lines 1109-1123
FinderInit(w, bv, mx_find_mxes) ==
  LET find_cores == mx_find_mxes = 3 \/ mx_find_mxes = 1
      find_ncores == mx_find_mxes = 3 \/ mx_find_mxes = 2
      lits == 0..(2 * n_vars(bv) - 1)
  IN [marks |-> [l \in lits |-> 0], cached |-> {}, cache |-> [l \in lits |-> <<>>],
      mem |-> 0, reports |-> {},
      toProcess |-> (IF find_cores THEN bv.blits ELSE <<>>) \o
                    (IF find_ncores THEN [i \in 1..Len(bv.blits) |-> Neg(bv.blits[i])]
                     ELSE <<>>),
      twos |-> <<>>, mxs |-> <<>>, loops |-> 0, timedOut |-> FALSE, phase |-> "A"]

FinderDone(fs) ==
  fs.phase = "done" \/ (fs.phase = "B" /\ fs.twos = <<>>)
  \/ (fs.phase = "A" /\ fs.toProcess = <<>> /\ fs.twos = <<>>)

FinderStep(ctx, fs, timeUp) ==
  IF fs.phase = "A" /\ fs.toProcess # <<>> THEN PhaseAStep(ctx, fs, timeUp)
  ELSE PhaseBStep(ctx, [fs EXCEPT !.phase = "B"])

\* MXFinder::findMxs run to its end; the mutexes it returns
RECURSIVE findMxsRun(_, _)
findMxsRun(ctx, fs) ==
  IF FinderDone(fs) THEN fs.mxs ELSE findMxsRun(ctx, FinderStep(ctx, fs, FALSE))

\* SatSolver::findImplications on the FbEq clauses: the literals that follow
\* from l, by unit propagation or (strong) by entailment
findImplications(cls, n, l, strong) ==
  IF strong
    THEN IF Models(cls \o <<<<l>>>>, n) = {} THEN <<>>
         ELSE SetToSeq(SemImplied(cls, n, l) \ {l})
    ELSE SetToSeq(UPImplied(cls, l) \ {l})

MxCtx(w, bv, prm, strong) ==
  LET cls == fbeqClauses(w, bv)
  IN [bv |-> bv,
      imp |-> [l \in 0..(2 * n_vars(bv) - 1) |->
                 findImplications(cls, n_vars(bv), l, strong)],
      limit |-> MxMemUnit * prm.mx_mem_limit,
      cpu_lim |-> prm.mx_cpu_lim]

\* Wcnf::mxFinder with MXFinder::fbeq's unsat test; [unsat, mxs]
mxFinder(w, bv, prm, strong) ==
  IF theory_is_unsat(fbeqClauses(w, bv), strong)
    THEN [unsat |-> TRUE, mxs |-> <<>>]
    ELSE [unsat |-> w.unsat,
          mxs |-> findMxsRun(MxCtx(w, bv, prm, strong),
                             FinderInit(w, bv, prm.mx_find_mxes))]

\* lines 921-938: the members of a core mutex; st = [w, bv, delMarks, blits]
RECURSIVE CoreMx(_, _, _, _)
CoreMx(st, mx, k, unitWt) ==
  IF k > Len(mx) THEN st
  ELSE LET ci == clsIndex(st.bv, mx[k])
           sftcls == st.w.soft_cls[ci]
       IN IF Len(sftcls) = 0 THEN CoreMx(st, mx, k + 1, unitWt)
          ELSE IF Len(sftcls) = 1
            THEN CoreMx([st EXCEPT !.blits = Append(@, Neg(sftcls[1]))], mx, k + 1, unitWt)
          ELSE LET blit == mkLit(st.bv.maxbvar + 1, FALSE)
                   w1 == _addHardClause(st.w, Append(sftcls, blit))
                   w2 == _addSoftClause(w1, <<Neg(blit)>>, unitWt)
               IN CoreMx([st EXCEPT !.w = w2, !.bv.maxbvar = @ + 1,
                                    !.delMarks = @ \cup {ci},
                                    !.blits = Append(@, blit)],
                         mx, k + 1, unitWt)

\* lines 971-981 without the deletion mark of line 980
RECURSIVE NonCoreMx_noMarks(_, _, _)
NonCoreMx_noMarks(st, mx, k) ==
  IF k > Len(mx) THEN st
  ELSE LET sftcls == st.w.soft_cls[clsIndex(st.bv, mx[k])]
       IN NonCoreMx_noMarks([st EXCEPT !.blits = @ \o sftcls], mx, k + 1)

\* lines 971-981: the union of the softs of a non-core mutex
RECURSIVE NonCoreMx(_, _, _)
NonCoreMx(st, mx, k) ==
  IF k > Len(mx) THEN st
  ELSE LET ci == clsIndex(st.bv, mx[k])
           sftcls == st.w.soft_cls[ci]
       IN IF Len(sftcls) = 0 THEN NonCoreMx(st, mx, k + 1)
          ELSE NonCoreMx([st EXCEPT !.blits = @ \o sftcls, !.delMarks = @ \cup {ci}],
                         mx, k + 1)

\* lines 888-992
RECURSIVE MxLoop(_, _, _)
MxLoop(st, mxs, m) ==
  IF m > Len(mxs) THEN st
  ELSE LET mx == mxs[m] IN
    IF mx = <<>> THEN MxLoop(st, mxs, m + 1)
    ELSE LET unitWt == bvWt(st.bv, var(mx[1]))
             core == isCore(st.bv, mx[1])
             s0 == [st EXCEPT !.blits = <<>>]
         IN IF core
              THEN LET s1 == CoreMx(s0, mx, 1, unitWt)
                   IN MxLoop([s1 EXCEPT !.w.mutexes =
                                Append(@, [blits |-> s1.blits, is_core |-> TRUE,
                                           encoding_lit |-> lit_Undef])],
                             mxs, m + 1)
              ELSE LET s1 == NonCoreMx(s0, mx, 1)
                       dlit == mkLit(s1.bv.maxbvar + 1, FALSE)
                       w1 == _addHardClause(s1.w, Append(s1.blits, dlit))
                       w2 == [w1 EXCEPT !.base_cost = @ + unitWt * (Len(mx) - 1)]
                       w3 == _addSoftClause(w2, <<Neg(dlit)>>, unitWt)
                   IN MxLoop([s1 EXCEPT !.w = w3, !.bv.maxbvar = @ + 1], mxs, m + 1)

\* Wcnf::processMxs
processMxs(w, mxs, bv) ==
  IF w.unsat THEN w
  ELSE LET st == MxLoop([w |-> w, bv |-> bv, delMarks |-> {}, blits |-> <<>>], mxs, 1)
           keep == SelectSeq([i \in 1..nSofts(st.w) |-> i],
                             LAMBDA i : i \notin st.delMarks)
           wts == [k \in 1..Len(keep) |-> st.w.soft_clswts[keep[k]]]
       IN computeWtInfo([st.w EXCEPT
            !.soft_cls = [k \in 1..Len(keep) |-> st.w.soft_cls[keep[k]]],
            !.soft_clswts = wts,
            !.total_cls_wt = SeqSum(wts)])

\* Wcnf::mxBvars, for either strength of the oracle
mxBvars(w, prm) ==
  {LET bv == Bvars(w)
       r == mxFinder(w, bv, prm, strong)
   IN processMxs([w EXCEPT !.unsat = r.unsat], r.mxs, bv) : strong \in BOOLEAN}

(* ------------------------------------------------------------------ *)
(* Wcnf::remapVars and Wcnf::rewriteModelToInput.  A vector indexed by *)
(* variable v is a sequence read at v + 1.                             *)
(* ------------------------------------------------------------------ *)
\* std::vector::resize(n, val): truncate, or pad with val
Resize(s, n, val) == [i \in 1..n |-> IF i <= Len(s) THEN s[i] ELSE val]

\* the numbering loop started one short: nxtvar ends one below the count
RECURSIVE RemapLoop_oneShort(_, _, _, _, _, _)
RemapLoop_oneShort(appears, n, v, nxtvar, e2i, i2e) ==
  IF v = n THEN [nxtvar |-> nxtvar - 1, ex2in |-> e2i, in2ex |-> i2e]
  ELSE IF v \in appears
    THEN RemapLoop_oneShort(appears, n, v + 1, nxtvar + 1,
                   [e2i EXCEPT ![v + 1] = nxtvar], [i2e EXCEPT ![nxtvar + 1] = v])
  ELSE RemapLoop_oneShort(appears, n, v + 1, nxtvar, e2i, i2e)

\* lines 1584-1589: number the variables that appear, in increasing order
RECURSIVE RemapLoop(_, _, _, _, _, _)
RemapLoop(appears, n, v, nxtvar, e2i, i2e) ==
  IF v = n THEN [nxtvar |-> nxtvar, ex2in |-> e2i, in2ex |-> i2e]
  ELSE IF v \in appears
    THEN RemapLoop(appears, n, v + 1, nxtvar + 1,
                   [e2i EXCEPT ![v + 1] = nxtvar], [i2e EXCEPT ![nxtvar + 1] = v])
  ELSE RemapLoop(appears, n, v + 1, nxtvar, e2i, i2e)

remapVars(w) ==
  LET n == nVars(w)
      appears == VarsOf(w.hard_cls) \cup VarsOf(w.soft_cls)
      posUnit == {var(w.soft_cls[i][1]) : i \in {k \in 1..nSofts(w) :
                     Len(w.soft_cls[k]) = 1 /\ ~sign(w.soft_cls[k][1])}}
      fl0 == Resize(w.flipped_vars, n, FALSE)
      flipped == [i \in 1..n |-> fl0[i] \/ (i - 1) \in posUnit]
      r == RemapLoop(appears, n, 0, 0, Resize(w.ex2in, n, var_Undef),
                     Resize(w.in2ex, n, var_Undef))
      map(l) == mkLit(r.ex2in[var(l) + 1],
                      IF flipped[var(l) + 1] THEN ~sign(l) ELSE sign(l))
      mapCls(c) == [k \in 1..Len(c) |-> map(c[k])]
  IN [w EXCEPT
        !.flipped_vars = flipped, !.ex2in = r.ex2in, !.in2ex = r.in2ex,
        !.maxvar = r.nxtvar - 1,
        !.hard_cls = [i \in 1..Len(w.hard_cls) |-> mapCls(w.hard_cls[i])],
        !.soft_cls = [i \in 1..Len(w.soft_cls) |-> mapCls(w.soft_cls[i])],
        !.mutexes = [i \in 1..Len(w.mutexes) |->
                       [blits |-> mapCls(w.mutexes[i].blits),
                        is_core |-> w.mutexes[i].is_core,
                        encoding_lit |->
                          IF w.mutexes[i].encoding_lit # lit_Undef
                            THEN map(w.mutexes[i].encoding_lit) ELSE lit_Undef]]]

\* lbool values and lbool::neg
lneg(b) == IF b = "T" THEN "F" ELSE IF b = "F" THEN "T" ELSE b

\* lines 1637-1643
RECURSIVE LiftLoop(_, _, _, _)
LiftLoop(w, ubmodel, i, ex_model) ==
  IF i > Len(w.in2ex) \/ i > Len(ubmodel) THEN ex_model
  ELSE LET e == w.in2ex[i] IN
    IF e # var_Undef /\ e < nOrigVars(w)
      THEN LiftLoop(w, ubmodel, i + 1,
             [ex_model EXCEPT ![e + 1] =
                IF w.flipped_vars[e + 1] THEN lneg(ubmodel[i]) ELSE ubmodel[i]])
      ELSE LiftLoop(w, ubmodel, i + 1, ex_model)

\* lines 1644-1646; a write past the end of ex_model is dropped
RECURSIVE UnitsLoop(_, _, _)
UnitsLoop(units, i, ex_model) ==
  IF i > Len(units) THEN ex_model
  ELSE UnitsLoop(units, i + 1,
         IF var(units[i]) + 1 \in DOMAIN ex_model
           THEN [ex_model EXCEPT ![var(units[i]) + 1] =
                   IF sign(units[i]) THEN "F" ELSE "T"]
           ELSE ex_model)

\* lines 1647-1653 with the value of scc[0] copied whatever the signs
RECURSIVE SccModelLoop_sameSign(_, _, _, _)
SccModelLoop_sameSign(sccs, s, i, ex_model) ==
  IF s > Len(sccs) THEN ex_model
  ELSE IF i > Len(sccs[s]) THEN SccModelLoop_sameSign(sccs, s + 1, 1, ex_model)
  ELSE LET l == sccs[s][i]
           l0 == sccs[s][1]
           rep == IF var(l0) + 1 \in DOMAIN ex_model THEN ex_model[var(l0) + 1] ELSE "U"
       IN SccModelLoop_sameSign(sccs, s, i + 1,
            IF var(l) + 1 \in DOMAIN ex_model
              THEN [ex_model EXCEPT ![var(l) + 1] = rep] ELSE ex_model)

\* lines 1647-1653, one literal of one scc at a time
RECURSIVE SccModelLoop(_, _, _, _)
SccModelLoop(sccs, s, i, ex_model) ==
  IF s > Len(sccs) THEN ex_model
  ELSE IF i > Len(sccs[s]) THEN SccModelLoop(sccs, s + 1, 1, ex_model)
  ELSE LET l == sccs[s][i]
           l0 == sccs[s][1]
           rep == IF var(l0) + 1 \in DOMAIN ex_model THEN ex_model[var(l0) + 1] ELSE "U"
           val == IF sign(l) = sign(l0) THEN rep ELSE lneg(rep)
       IN SccModelLoop(sccs, s, i + 1,
            IF var(l) + 1 \in DOMAIN ex_model
              THEN [ex_model EXCEPT ![var(l) + 1] = val] ELSE ex_model)

rewriteModelToInput(w, ubmodel) ==
  LET n == nOrigVars(w)
      m0 == IF Len(w.in2ex) = 0 THEN Resize(ubmodel, n, "T") ELSE [i \in 1..n |-> "T"]
      m1 == LiftLoop(w, ubmodel, 1, m0)
      m2 == UnitsLoop(w.hard_units, 1, m1)
  IN SccModelLoop(w.all_scc, 1, 1, m2)

(* ------------------------------------------------------------------ *)
(* The state machine: a caller that inserts clauses or loads a file,   *)
(* and calls simplify(), whose passes run in the order of lines        *)
(* 194-227.                                                            *)
(* ------------------------------------------------------------------ *)
Lits == 0..(2 * MaxVarId + 1)
ClauseIn == {<<>>} \cup {<<a>> : a \in Lits} \cup {<<a, b>> : a, b \in Lits}
Tops == {MaxWt + 1}

DefaultParams ==
  [wcnf_harden |-> TRUE, wcnf_eqs |-> TRUE, wcnf_units |-> TRUE,
   mx_find_mxes |-> 2, mx_mem_limit |-> 1536, mx_cpu_lim |-> 15]
ParamSet ==
  {DefaultParams,
   [DefaultParams EXCEPT !.mx_find_mxes = 3],
   [DefaultParams EXCEPT !.wcnf_harden = FALSE, !.wcnf_eqs = FALSE,
                         !.wcnf_units = FALSE, !.mx_find_mxes = 0]}

\* the clause as a formula: its literals without repetition; a tautology
\* constrains nothing
CanonCls(lits) == SetToSeq(Range(lits))
Tautology(lits) == \E l \in Range(lits) : Neg(l) \in Range(lits)
NInput == Len(orig_hards) + Len(orig_softs)
NLits == Len(Flatten(orig_hards)) + Len(Flatten(orig_softs))
\* the formula is built before simplify() is called, within the bounds; a
\* store that simplify() found unsat still accepts calls
Room(lits) ==
  \/ nsimp = 0 /\ NInput < MaxCls /\ NLits + Len(CanonCls(lits)) <= MaxLits
  \/ nsimp > 0 /\ unsat

\* no method is being called on its own
NoCall == [fn |-> "none", arg |-> <<>>, done |-> FALSE, ret |-> <<>>]

\* no mutex search is in progress
NoFinder ==
  [bv |-> [blits |-> <<>>, wts |-> <<>>, maxbvar |-> 0], limit |-> 0, cpu_lim |-> 0,
   fs |-> [marks |-> <<>>, cached |-> {}, cache |-> <<>>, mem |-> 0,
           reports |-> {}, toProcess |-> <<>>, twos |-> <<>>, mxs |-> <<>>,
           loops |-> 0, timedOut |-> FALSE, phase |-> "none"]]

\* the object as its member initialisers leave it, nothing called yet
Constructed ==
  /\ hard_cls = <<>> /\ soft_cls = <<>> /\ soft_clswts = <<>> /\ base_cost = 0
  /\ total_cls_wt = 0 /\ maxvar = 0 /\ maxorigvar = 0 /\ unsat = FALSE
  /\ noDups = TRUE /\ dimacs_top = TopMax /\ transitionWts = <<>> /\ wt_max = 0
  /\ hard_units = <<>> /\ all_scc = <<>> /\ flipped_vars = <<>>
  /\ ex2in = <<>> /\ in2ex = <<>> /\ mutexes = <<>>
  /\ pc = "idle"
  /\ orig_hards = <<>> /\ orig_softs = <<>> /\ orig_wts = <<>>
  /\ nsimp = 0 /\ loaded = "none"
  /\ snap = EmptyWcnf
  /\ finder = NoFinder

Init ==
  /\ Constructed
  /\ params \in ParamSet
  /\ call = NoCall

RecordHard(lits) ==
  /\ orig_hards' = IF Tautology(lits) \/ nsimp > 0 THEN orig_hards
                   ELSE Append(orig_hards, CanonCls(lits))
  /\ UNCHANGED <<orig_softs, orig_wts>>
RecordSoft(lits, wt) ==
  /\ orig_softs' = IF Tautology(lits) \/ wt <= 0 \/ nsimp > 0 THEN orig_softs
                   ELSE Append(orig_softs, CanonCls(lits))
  /\ orig_wts' = IF Tautology(lits) \/ wt <= 0 \/ nsimp > 0 THEN orig_wts
                 ELSE Append(orig_wts, wt)
  /\ UNCHANGED orig_hards

AddHardClause(lits) ==
  /\ pc = "idle" /\ Room(lits)
  /\ Assign(addHardClause(W, lits))
  /\ RecordHard(lits)
  /\ UNCHANGED <<params, pc, nsimp, loaded, snap, finder, call>>

AddSoftClause(lits, wt) ==
  /\ pc = "idle" /\ Room(lits)
  /\ Assign(addSoftClause(W, lits, wt))
  /\ RecordSoft(lits, wt)
  /\ UNCHANGED <<params, pc, nsimp, loaded, snap, finder, call>>

\* inputDimacs: parse_DIMACS calls set_dimacs_params, then addDimacsClause
\* for each clause of the file
BeginInput(top) ==
  /\ pc = "idle" /\ NInput = 0 /\ nsimp = 0 /\ loaded = "none"
  /\ Assign([W EXCEPT !.dimacs_top = top])
  /\ pc' = "parse"
  /\ UNCHANGED <<params, ghost, finder, call>>

AddDimacsClause(lits, wt) ==
  /\ pc = "parse" /\ Room(lits)
  /\ Assign(addDimacsClause(W, lits, wt))
  /\ IF wt >= dimacs_top THEN RecordHard(lits) ELSE RecordSoft(lits, wt)
  /\ UNCHANGED <<params, pc, nsimp, loaded, snap, finder, call>>

\* lines 85-95
EndInput ==
  /\ pc = "parse"
  /\ LET w1 == computeWtInfo(W)
     IN Assign(IF nSofts(w1) = 0 THEN [w1 EXCEPT !.total_cls_wt = w1.dimacs_top]
               ELSE w1)
  /\ loaded' = IF nSofts(W) = 0 THEN "nosofts" ELSE "softs"
  /\ pc' = "idle"
  /\ UNCHANGED <<params, orig_hards, orig_softs, orig_wts, nsimp, snap, finder, call>>

\* simplify() is entered (line 194 computes a statistic only)
SimplifyBegin ==
  /\ pc = "idle" /\ nsimp < MaxSimp
  /\ pc' = "harden" /\ nsimp' = nsimp + 1 /\ snap' = W
  /\ UNCHANGED <<wvars, params, orig_hards, orig_softs, orig_wts, loaded, finder, call>>

Pass(from, to, results) ==
  /\ pc = from /\ pc' = to
  /\ \E n \in results : Assign(n)
  /\ UNCHANGED <<ghost, finder, call>>

\* line 198
SimpleHarden ==
  /\ Pass("harden", "eqs", IF params.wcnf_harden THEN simpleHarden(W) ELSE {W})
  /\ UNCHANGED params

\* line 202
SubEqsAndUnits ==
  /\ Pass("eqs", "dups",
          IF params.wcnf_eqs \/ params.wcnf_units
            THEN subEqsAndUnits(W, params.wcnf_eqs) ELSE {W})
  /\ UNCHANGED params

\* line 207
RemDupCls ==
  /\ Pass("dups", "mx", remDupCls(W))
  /\ UNCHANGED params

\* lines 211-219 with the two searches of mx_find_mxes = 3 exchanged
MxModes_coresFirst(m) == IF m = 0 THEN <<>> ELSE IF m = 3 THEN <<1, 2>> ELSE <<m>>

\* lines 211-219: the searches simplify() runs for a value of mx_find_mxes
MxModes(m) == IF m = 0 THEN <<>> ELSE IF m = 3 THEN <<2, 1>> ELSE <<m>>

RECURSIVE MxBvarsRuns(_, _, _)
MxBvarsRuns(ws, prm, modes) ==
  IF modes = <<>> THEN ws
  ELSE MxBvarsRuns(UNION {mxBvars(w1, [prm EXCEPT !.mx_find_mxes = Head(modes)]) :
                            w1 \in ws},
                   prm, Tail(modes))

\* lines 211-219
MxBvars ==
  /\ Pass("mx", "wt", MxBvarsRuns({W}, params, MxModes(params.mx_find_mxes)))
  /\ params' = IF params.mx_find_mxes = 3 THEN [params EXCEPT !.mx_find_mxes = 1]
               ELSE params

\* lines 223-226
RemapVars ==
  /\ Pass("wt", "idle", {remapVars(computeWtInfo(W))})
  /\ UNCHANGED params

Next ==
  \/ \E lits \in ClauseIn : AddHardClause(lits)
  \/ \E lits \in ClauseIn, wt \in 0..MaxWt : AddSoftClause(lits, wt)
  \/ \E top \in Tops : BeginInput(top)
  \/ \E lits \in ClauseIn, wt \in 1..(MaxWt + 1) : AddDimacsClause(lits, wt)
  \/ EndInput
  \/ SimplifyBegin
  \/ SimpleHarden
  \/ SubEqsAndUnits
  \/ RemDupCls
  \/ MxBvars
  \/ RemapVars

Spec == Init /\ [][Next]_vars

(* ------------------------------------------------------------------ *)
(* Properties.                                                         *)
(* ------------------------------------------------------------------ *)
Inf == 1000000000

\* the least summed weight of falsified softs over the assignments of
\* variables 0..n-1 that satisfy the hards; Inf when there is none
MinCost(hards, softs, wts, n) ==
  LET ms == Models(hards, n)
      cost(A) == SeqSum([i \in 1..Len(softs) |->
                           IF ClsSat(softs[i], A) THEN 0 ELSE wts[i]])
  IN IF ms = {} THEN Inf
     ELSE CHOOSE c \in {cost(A) : A \in ms} : \A A \in ms : c <= cost(A)

OrigMinCost == MinCost(orig_hards, orig_softs, orig_wts, MaxVarId + 1)
StoreMinCost == MinCost(hard_cls, soft_cls, soft_clswts, nVars(W))

\* simplify() has returned from its first call on the inserted formula
Simplified1 == pc = "idle" /\ nsimp = 1

\* C1: when the first simplify() returns with unsat = false, base_cost plus
\* the minimum cost of the stored formula equals the minimum cost of the
\* input formula (both infeasible, or both feasible with equal cost).
C1_CostPreserved ==
  (Simplified1 /\ ~unsat /\ Len(soft_clswts) = Len(soft_cls)) =>
    IF OrigMinCost = Inf THEN StoreMinCost = Inf
    ELSE StoreMinCost # Inf /\ base_cost + StoreMinCost = OrigMinCost

\* an assignment A of the internal variables as the solver's model vector
AsModel(A, n) == [i \in 1..n |-> IF (i - 1) \in A THEN "T" ELSE "F"]
\* the clause holds under a vector of lbool
ClsHolds(c, m) ==
  \E k \in 1..Len(c) :
    /\ var(c[k]) + 1 \in DOMAIN m
    /\ m[var(c[k]) + 1] = IF sign(c[k]) THEN "F" ELSE "T"

\* C2: after the first simplify() (unsat = false), for every assignment of
\* the internal variables that satisfies the stored hards, the model given by
\* rewriteModelToInput satisfies every hard clause of the input formula.
C2_LiftedModelSatisfiesHards ==
  (Simplified1 /\ ~unsat) =>
    \A A \in Models(hard_cls, nVars(W)) :
      \A i \in 1..Len(orig_hards) :
        ClsHolds(orig_hards[i], rewriteModelToInput(W, AsModel(A, nVars(W))))

\* the fields C3 names
Frame(w) == <<w.hard_cls, w.soft_cls, w.soft_clswts, w.base_cost, w.total_cls_wt,
              w.maxvar, w.maxorigvar>>
WNext == [W EXCEPT !.hard_cls = hard_cls', !.soft_cls = soft_cls',
                   !.soft_clswts = soft_clswts', !.base_cost = base_cost',
                   !.total_cls_wt = total_cls_wt', !.maxvar = maxvar',
                   !.maxorigvar = maxorigvar']
\* the step is a call of addHardClause, addSoftClause or addDimacsClause
InsertStep == pc' = pc /\ pc \in {"idle", "parse"}
\* the step is the return of simplify()
SimplifyReturns == pc = "wt" /\ pc' = "idle"

\* C3: once unsat is set it stays set; an insertion into an unsat store and a
\* simplify() of an unsat store leave hard clauses, soft clauses, soft weights,
\* base_cost, total_cls_wt, maxvar and maxorigvar as they were.
C3_UnsatSticky ==
  [][/\ unsat => unsat'
     /\ (unsat /\ InsertStep) => Frame(WNext) = Frame(W)
     /\ (snap.unsat /\ SimplifyReturns) => Frame(WNext) = Frame(snap)]_vars

\* the fields C4 names
Simplified(w) == <<w.hard_cls, w.soft_cls, w.soft_clswts, w.base_cost, w.hard_units,
                   w.all_scc, w.flipped_vars, w.ex2in, w.in2ex, w.mutexes>>

\* C4: when a second simplify() returns, hard clauses, soft clauses, soft
\* weights, base_cost, hard_units, all_scc, flipped_vars, ex2in, in2ex and the
\* mutex records are what the first simplify() left.
C4_SecondSimplifyNoOp ==
  (pc = "idle" /\ nsimp = 2) => Simplified(W) = Simplified(snap)

\* C6: every literal of every stored hard or soft clause has var(l) <= maxvar.
C6_LitsWithinMaxVar ==
  \A l \in Range(Flatten(hard_cls)) \cup Range(Flatten(soft_cls)) : var(l) <= maxvar

C10_TotalIsSum == total_cls_wt = SeqSum(soft_clswts)

\* no call of simplify() has reached remapVars yet
BeforeRemap == nsimp = 0 \/ (nsimp = 1 /\ pc # "idle")

RemapStep == pc = "wt" /\ pc' = "idle"

\* C8: after remapVars, in2ex[ex2in[v]] = v wherever ex2in[v] is defined;
\* ex2in is defined exactly for the variables of the clauses remapVars was
\* given, with the values 0..k-1 in increasing order of v, and maxvar = k-1.
C8_RemapBijection ==
  [][RemapStep =>
      LET occ == VarsOf(hard_cls) \cup VarsOf(soft_cls)
          defined(v) == ex2in'[v + 1] # var_Undef
      IN /\ \A v \in 0..(Len(ex2in') - 1) :
              defined(v) => /\ ex2in'[v + 1] + 1 \in DOMAIN in2ex'
                            /\ in2ex'[ex2in'[v + 1] + 1] = v
         /\ \A v \in 0..(Len(ex2in') - 1) : defined(v) <=> v \in occ
         /\ \A v \in occ : /\ v + 1 \in DOMAIN ex2in'
                           /\ ex2in'[v + 1] = Cardinality({u \in occ : u < v})
         /\ maxvar' = Cardinality(occ) - 1]_vars

\* C10 (amended): total_cls_wt is the sum of the weights of the stored softs
\* after every insertion and pass, and after inputDimacs when the file had a
\* soft clause; a file without softs leaves total_cls_wt = dimacs_top.
C10_TotalIsSumUnlessNoSofts == loaded # "nosofts" => total_cls_wt = SeqSum(soft_clswts)

\* simplify() has returned with clauses left, and remapVars renamed variable 1
C6_Witness ==
  /\ Simplified1 /\ ~unsat /\ Len(hard_cls) + Len(soft_cls) > 0
  /\ Len(ex2in) = 2 /\ ex2in[2] = 0

C10_Witness ==
  /\ Simplified1 /\ loaded = "softs" /\ Len(soft_cls) > 0
  /\ Len(soft_clswts) < Len(orig_wts)

(* ------------------------------------------------------------------ *)
(* remDupCls on its own: the store is any list of prepared clauses     *)
(* that insertion can build, and the pass is run on it once.           *)
(* ------------------------------------------------------------------ *)
AllOff ==
  [DefaultParams EXCEPT !.wcnf_harden = FALSE, !.wcnf_eqs = FALSE,
                        !.wcnf_units = FALSE, !.mx_find_mxes = 0]
DupClauses == {<<0>>, <<1>>, <<2>>, <<0, 2>>}
SeqsUpTo(S, n) == UNION {[1..k -> S] : k \in 0..n}

BuiltStore(hs, ss, ws) ==
  [EmptyWcnf EXCEPT !.hard_cls = hs, !.soft_cls = ss, !.soft_clswts = ws,
                    !.total_cls_wt = SeqSum(ws), !.noDups = FALSE,
                    !.maxvar = Max(0, SetMax(VarsOf(hs \o ss))),
                    !.maxorigvar = Max(0, SetMax(VarsOf(hs \o ss)))]

InitDup ==
  \E hs \in SeqsUpTo(DupClauses, MaxDupHards), ss \in SeqsUpTo(DupClauses, MaxDupSofts) :
    \E ws \in [1..Len(ss) -> 1..MaxWt] :
      LET w == BuiltStore(hs, ss, ws) IN
        /\ Len(hs) + Len(ss) <= MaxDupCls
        /\ hard_cls = w.hard_cls /\ soft_cls = w.soft_cls
        /\ soft_clswts = w.soft_clswts /\ base_cost = w.base_cost
        /\ total_cls_wt = w.total_cls_wt /\ maxvar = w.maxvar
        /\ maxorigvar = w.maxorigvar /\ unsat = w.unsat /\ noDups = w.noDups
        /\ dimacs_top = w.dimacs_top /\ transitionWts = w.transitionWts
        /\ wt_max = w.wt_max /\ hard_units = w.hard_units /\ all_scc = w.all_scc
        /\ flipped_vars = w.flipped_vars /\ ex2in = w.ex2in /\ in2ex = w.in2ex
        /\ mutexes = w.mutexes
        /\ params = AllOff /\ pc = "dups"
        /\ orig_hards = hs /\ orig_softs = ss /\ orig_wts = ws
        /\ nsimp = 1 /\ loaded = "none" /\ snap = w /\ finder = NoFinder
        /\ call = NoCall

NextDup == RemDupCls

SpecDup == InitDup /\ [][NextDup]_vars

NoTwoAlike(cls) == \A i, j \in 1..Len(cls) : cls[i] = cls[j] => i = j

\* C5: after remDupCls has run, whatever order the sort gave records of equal
\* hash, no two stored hards are the same literal sequence and no two stored
\* softs are.
C5_NoDuplicatesLeft ==
  (pc = "mx" /\ ~unsat) => NoTwoAlike(hard_cls) /\ NoTwoAlike(soft_cls)

(* ------------------------------------------------------------------ *)
(* The mutex finder on its own, one pass of its loops at a time, the   *)
(* oracle free to answer findImplications with any set of selector     *)
(* literals.                                                           *)
(* ------------------------------------------------------------------ *)
\* the i-th soft: a unit over variable i-1; the first may be (x_0 \/ x_1)
MxSoftChoices(i) ==
  {<<mkLit(i - 1, FALSE)>>, <<mkLit(i - 1, TRUE)>>} \cup
  (IF i = 1 THEN {<<mkLit(0, FALSE), mkLit(1, FALSE)>>} ELSE {})
MxSoftSeqs ==
  UNION {{ss \in [1..n -> UNION {MxSoftChoices(i) : i \in 1..n}] :
            \A i \in 1..n : ss[i] \in MxSoftChoices(i)} : n \in 2..MaxMxSofts}
MxMemLimits == {3, 1536}
\* one more soft than MaxMxSofts: units over different variables
MxManySofts == [i \in 1..(MaxMxSofts + 1) |-> <<mkLit(i - 1, FALSE)>>]
\* the weights given to the softs ss; those of MxManySofts are all the same
MxSoftWts(ss) ==
  IF Len(ss) > MaxMxSofts THEN {[i \in 1..Len(ss) |-> MaxWt]}
  ELSE [1..Len(ss) -> 1..MaxWt]

SelLits(bv) == {bv.blits[i] : i \in 1..Len(bv.blits)} \cup
               {Neg(bv.blits[i]) : i \in 1..Len(bv.blits)}

InitMx ==
  \E ss \in MxSoftSeqs \cup {MxManySofts}, mode \in {1, 2}, lim \in MxMemLimits :
    \E ws \in MxSoftWts(ss) :
      LET w == BuiltStore(<<>>, ss, ws)
          prm == [DefaultParams EXCEPT !.mx_find_mxes = mode, !.mx_mem_limit = lim]
          bv == Bvars(w)
      IN
        /\ hard_cls = w.hard_cls /\ soft_cls = w.soft_cls
        /\ soft_clswts = w.soft_clswts /\ base_cost = w.base_cost
        /\ total_cls_wt = w.total_cls_wt /\ maxvar = w.maxvar
        /\ maxorigvar = w.maxorigvar /\ unsat = w.unsat /\ noDups = TRUE
        /\ dimacs_top = w.dimacs_top /\ transitionWts = w.transitionWts
        /\ wt_max = w.wt_max /\ hard_units = w.hard_units /\ all_scc = w.all_scc
        /\ flipped_vars = w.flipped_vars /\ ex2in = w.ex2in /\ in2ex = w.in2ex
        /\ mutexes = w.mutexes
        /\ params = prm /\ pc = "mx"
        /\ orig_hards = <<>> /\ orig_softs = ss /\ orig_wts = ws
        /\ nsimp = 1 /\ loaded = "none" /\ snap = [w EXCEPT !.noDups = TRUE]
        /\ finder = [bv |-> bv, limit |-> MxMemUnit * lim, cpu_lim |-> prm.mx_cpu_lim,
                     fs |-> FinderInit(w, bv, mode)]
        /\ call = NoCall

\* the oracle answers every query of this pass with the literals of g; the
\* negation of the literal asked about is never among its implications
FinderCtx(g) ==
  [bv |-> finder.bv, limit |-> finder.limit, cpu_lim |-> finder.cpu_lim,
   imp |-> [l \in 0..(2 * n_vars(finder.bv) - 1) |-> SetToSeq(g \ {Neg(l)})]]

MxFrame == UNCHANGED <<wvars, params, pc, ghost, call>>
\* the log of the oracle's answers is kept for one pass of a loop
ThisPass(fs) == [fs EXCEPT !.reports = {}]
\* the clock is read only on every CpuPollPeriod-th pass
ClockReadings ==
  IF (finder.fs.loops + 1) % CpuPollPeriod = 0 THEN BOOLEAN ELSE {FALSE}

\* one pass of the loop at line 1126
MxPhaseA(g, timeUp) ==
  /\ pc = "mx" /\ finder.fs.phase = "A" /\ finder.fs.toProcess # <<>>
  /\ finder' = [finder EXCEPT !.fs = PhaseAStep(FinderCtx(g), ThisPass(finder.fs), timeUp)]
  /\ MxFrame

\* one pass of the loop at line 1223
MxPhaseB(g) ==
  /\ pc = "mx" /\ finder.fs.phase \in {"A", "B"}
  /\ finder.fs.toProcess = <<>> /\ finder.fs.twos # <<>>
  /\ finder' = [finder EXCEPT
                  !.fs = PhaseBStep(FinderCtx(g),
                                    [ThisPass(finder.fs) EXCEPT !.phase = "B"])]
  /\ MxFrame

\* findMxs returns and processMxs rewrites the store (line 857)
MxReturn ==
  /\ pc = "mx" /\ finder.fs.phase \in {"A", "B", "done"} /\ FinderDone(finder.fs)
  /\ Assign(processMxs(W, finder.fs.mxs, finder.bv))
  /\ finder' = [finder EXCEPT !.fs.phase = "returned"]
  /\ pc' = "wt"
  /\ UNCHANGED <<params, ghost, call>>

NextMx ==
  \/ \E g \in SUBSET SelLits(finder.bv), timeUp \in ClockReadings : MxPhaseA(g, timeUp)
  \/ \E g \in SUBSET SelLits(finder.bv) : MxPhaseB(g)
  \/ MxReturn

SpecMx == InitMx /\ [][NextMx]_vars

\* C9: every mutex the finder has collected consists of selector literals of
\* one soft-clause weight and one core status, whatever the oracle answered.
C9_MutexUniform ==
  \A m \in 1..Len(finder.fs.mxs) :
    LET mx == finder.fs.mxs[m] IN
      \A k \in 1..Len(mx) :
        /\ mx[k] \in SelLits(finder.bv)
        /\ bvWt(finder.bv, var(mx[k])) = bvWt(finder.bv, var(mx[1]))
        /\ isCore(finder.bv, mx[k]) = isCore(finder.bv, mx[1])

\* a mutex of two different selectors was collected while a soft clause of
\* another weight was in the store
C9_Witness ==
  \E m \in 1..Len(finder.fs.mxs) :
    LET mx == finder.fs.mxs[m] IN
      /\ \E a, b \in 1..Len(mx) : mx[a] # mx[b]
      /\ \E i \in 1..Len(soft_clswts) : soft_clswts[i] # bvWt(finder.bv, var(mx[1]))

(* ------------------------------------------------------------------ *)
(* The noDups flag.                                                    *)
(* ------------------------------------------------------------------ *)
\* the step changes a stored clause list
ClausesChange == <<hard_cls, soft_cls>>' # <<hard_cls, soft_cls>>
\* the step is the run of remDupCls inside simplify()
RemDupStep == pc = "dups" /\ pc' = "mx"

\* C11: noDups is true exactly when remDupCls has run since the stored clauses
\* last changed: every step other than remDupCls that changes a stored clause
\* list leaves noDups false, and remDupCls on a store that is not unsat leaves
\* it true.
C11_NoDupsExact ==
  [][/\ (ClausesChange /\ ~RemDupStep) => ~noDups'
     /\ (RemDupStep /\ ~unsat) => noDups']_vars

\* C11 (amended): noDups is set by remDupCls (on a store that is not unsat) and
\* cleared by every insertion that stores a clause or adds to base_cost; it is
\* cleared only by steps that insert through _addHardClause/_addSoftClause
\* (insertions, simpleHarden, mxBvars) and set only by remDupCls; the passes
\* that rewrite the lists in place (subEqsAndUnits, remapVars) leave it alone.
C11_NoDupsTracksInsertion ==
  [][/\ (RemDupStep /\ ~unsat) => noDups'
     /\ (InsertStep /\ <<hard_cls, soft_cls, base_cost>>' # <<hard_cls, soft_cls, base_cost>>)
          => ~noDups'
     /\ (noDups /\ ~noDups') => (InsertStep \/ pc \in {"harden", "mx"})
     /\ (~noDups /\ noDups') => RemDupStep
     /\ (pc = "eqs" \/ RemapStep) => noDups' = noDups]_vars

\* simplify() has returned, remapVars has renamed variable 1 in a stored clause
\* and noDups is still set
C11_Witness ==
  /\ Simplified1 /\ ~unsat /\ noDups
  /\ Len(ex2in) = 2 /\ ex2in[2] = 0 /\ ex2in[1] = var_Undef
  /\ VarsOf(hard_cls) \cup VarsOf(soft_cls) = {0}


(* ------------------------------------------------------------------ *)
(* One method called on its own: the argument is drawn at the start,   *)
(* the step applies the method and records what it returned.           *)
(* ------------------------------------------------------------------ *)
MaxPrepLen == 3

CallFrame == UNCHANGED <<wvars, params, pc, ghost, finder>>
Called(fn) == call.fn = fn /\ call.done

InitPrep ==
  /\ Constructed /\ params = DefaultParams
  /\ \E lits \in SeqsUpTo(Lits, MaxPrepLen) :
       call = [fn |-> "prepareClause", arg |-> lits, done |-> FALSE, ret |-> <<>>]

PrepareClause ==
  /\ call.fn = "prepareClause" /\ ~call.done
  /\ call' = [call EXCEPT !.done = TRUE, !.ret = prepareClause(call.arg)]
  /\ CallFrame

NextPrep == PrepareClause
SpecPrep == InitPrep /\ [][NextPrep]_vars

StrictlyIncreasing(s) == \A i \in 1..(Len(s) - 1) : s[i] < s[i + 1]

\* C12: prepareClause returns false exactly when its argument holds a literal
\* together with that literal's negation; when it returns true the argument has
\* become the sorted sequence, without repetition, of the literals it held.
C12_PrepareClause ==
  Called("prepareClause") =>
    /\ (~call.ret.ok) <=> (\E l \in Range(call.arg) : Neg(l) \in Range(call.arg))
    /\ call.ret.ok => /\ StrictlyIncreasing(call.ret.lits)
                      /\ Range(call.ret.lits) = Range(call.arg)

\* a clause given out of order with a repeated literal came back sorted and
\* shorter, and a clause with x, another literal and then not-x was refused
C12_Witness ==
  /\ Called("prepareClause")
  /\ call.arg = <<3, 0, 3>> /\ call.ret.ok /\ call.ret.lits = <<0, 3>>

C12_WitnessRefused ==
  /\ Called("prepareClause")
  /\ call.arg = <<0, 3, 1>> /\ ~call.ret.ok


(* ------------------------------------------------------------------ *)
(* remDupCls on contradictory and repeated units (checked under        *)
(* SpecDup, where orig_* hold the store the pass was given).           *)
(* ------------------------------------------------------------------ *)
RECURSIVE CopiesWt(_, _, _, _)
\* total weight of the copies of clause c among the first i of cls
CopiesWt(cls, wts, c, i) ==
  IF i = 0 THEN 0
  ELSE (IF cls[i] = c THEN wts[i] ELSE 0) + CopiesWt(cls, wts, c, i - 1)
GivenWt(c) == CopiesWt(orig_softs, orig_wts, c, Len(orig_softs))
KeptWt(c) == CopiesWt(soft_cls, soft_clswts, c, Len(soft_cls))
Copies(cls, c) == Cardinality({i \in 1..Len(cls) : cls[i] = c})
DupDone == pc = "mx"
NoHardUnitGiven == \A i \in 1..Len(orig_hards) : Len(orig_hards[i]) # 1
ClashCost(v) == Min(GivenWt(<<mkLit(v, FALSE)>>), GivenWt(<<mkLit(v, TRUE)>>))

NoHardUnitOn(v) ==
  \A i \in 1..Len(orig_hards) :
    orig_hards[i] \notin {<<mkLit(v, FALSE)>>, <<mkLit(v, TRUE)>>}

\* C13: after remDupCls, the soft units given on a literal l and on its
\* negation, of total weights wl >= wn > 0, with no hard unit on their
\* variable, have become one soft unit (l) of weight wl - wn, or none when
\* wl = wn, and no soft unit on the negation is left, however many copies of
\* either unit the store held; with no hard unit in the store, base_cost has
\* grown by min(wl, wn) for every variable.
C13_SoftUnitsResolve ==
  (DupDone /\ ~unsat) =>
    /\ NoHardUnitGiven =>
         base_cost = SeqSum([v \in 1..(MaxVarId + 1) |-> ClashCost(v - 1)])
    /\ \A l \in Lits :
         (/\ NoHardUnitOn(var(l))
          /\ GivenWt(<<Neg(l)>>) > 0
          /\ GivenWt(<<l>>) >= GivenWt(<<Neg(l)>>)) =>
           /\ Copies(soft_cls, <<Neg(l)>>) = 0
           /\ KeptWt(<<l>>) = GivenWt(<<l>>) - GivenWt(<<Neg(l)>>)
           /\ Copies(soft_cls, <<l>>) =
                (IF GivenWt(<<l>>) > GivenWt(<<Neg(l)>>) THEN 1 ELSE 0)

\* softs (x0):1, (not x0):2, (x0):2 became the one soft (x0):1 at cost 2
C13_Witness ==
  /\ DupDone /\ orig_hards = <<>>
  /\ orig_softs = <<<<0>>, <<1>>, <<0>>>> /\ orig_wts = <<1, 2, 2>>
  /\ soft_cls = <<<<0>>>> /\ soft_clswts = <<1>> /\ base_cost = 2


HardUnitGiven(l) == \E i \in 1..Len(orig_hards) : orig_hards[i] = <<l>>
\* what the units over variable v cost: the softs against a hard unit, or the
\* lighter side of two opposed soft units
UnitCost(v) ==
  IF HardUnitGiven(mkLit(v, FALSE)) THEN GivenWt(<<mkLit(v, TRUE)>>)
  ELSE IF HardUnitGiven(mkLit(v, TRUE)) THEN GivenWt(<<mkLit(v, FALSE)>>)
  ELSE ClashCost(v)

\* C14: after remDupCls on a store with a hard unit (l), no hard unit (not l)
\* and soft units (not l), no soft (not l) is left, (l) is still a hard clause, and base_cost
\* has grown by the total weight of the soft copies of (not l) (and by what
\* the units of the other variables cost).
C14_HardUnitDropsSoft ==
  (DupDone /\ ~unsat) =>
    \A l \in Lits :
      (HardUnitGiven(l) /\ ~HardUnitGiven(Neg(l)) /\ GivenWt(<<Neg(l)>>) > 0) =>
        /\ Copies(soft_cls, <<Neg(l)>>) = 0
        /\ Copies(hard_cls, <<l>>) >= 1
        /\ base_cost = SeqSum([v \in 1..(MaxVarId + 1) |-> UnitCost(v - 1)])


NoClashGiven ==
  \A l \in Lits : <<l>> \in Range(orig_hards \o orig_softs)
                     => <<Neg(l)>> \notin Range(orig_hards \o orig_softs)

\* C15: after remDupCls on a store without opposed units where a clause is
\* stored once as a hard and one or more times as a soft, one hard copy of it
\* and no soft copy is left, in whatever order the records were met, and
\* base_cost is what it was.
C15_HardSubsumesSofts ==
  (DupDone /\ ~unsat /\ NoClashGiven) =>
    \A c \in DupClauses :
      (Copies(orig_hards, c) = 1 /\ Copies(orig_softs, c) >= 1) =>
        /\ Copies(hard_cls, c) = 1
        /\ Copies(soft_cls, c) = 0
        /\ base_cost = 0


(* ------------------------------------------------------------------ *)
(* computeWtInfo on its own, on a store of softs of any weights.       *)
(* ------------------------------------------------------------------ *)
MaxInfoWt == 4
MaxInfoSofts == 4

InitWt ==
  \E ws \in SeqsUpTo(1..MaxInfoWt, MaxInfoSofts) :
    LET w == BuiltStore(<<>>, [i \in 1..Len(ws) |-> <<mkLit(0, FALSE)>>], ws) IN
      /\ hard_cls = w.hard_cls /\ soft_cls = w.soft_cls
      /\ soft_clswts = w.soft_clswts /\ base_cost = w.base_cost
      /\ total_cls_wt = w.total_cls_wt /\ maxvar = w.maxvar
      /\ maxorigvar = w.maxorigvar /\ unsat = w.unsat /\ noDups = w.noDups
      /\ dimacs_top = w.dimacs_top /\ transitionWts = w.transitionWts
      /\ wt_max = w.wt_max /\ hard_units = w.hard_units /\ all_scc = w.all_scc
      /\ flipped_vars = w.flipped_vars /\ ex2in = w.ex2in /\ in2ex = w.in2ex
      /\ mutexes = w.mutexes
      /\ params = DefaultParams /\ pc = "wt"
      /\ orig_hards = <<>> /\ orig_softs = w.soft_cls /\ orig_wts = ws
      /\ nsimp = 1 /\ loaded = "none" /\ snap = w /\ finder = NoFinder
      /\ call = [fn |-> "computeWtInfo", arg |-> ws, done |-> FALSE, ret |-> <<>>]

ComputeWtInfo ==
  /\ call.fn = "computeWtInfo" /\ ~call.done
  /\ Assign(computeWtInfo(W))
  /\ call' = [call EXCEPT !.done = TRUE]
  /\ UNCHANGED <<params, pc, ghost, finder>>

NextWt == ComputeWtInfo
SpecWt == InitWt /\ [][NextWt]_vars

\* total weight of the softs lighter than w
LighterSum(w) == SeqSum(SelectSeq(soft_clswts, LAMBDA x : x < w))
Dominant == {w \in Range(soft_clswts) : LighterSum(w) < w}
Lightest == {w \in Range(soft_clswts) : \A x \in Range(soft_clswts) : w <= x}

MaxHardenHards == 2
MaxHardenSofts == 3
HardenClauses == {<<0>>, <<1>>, <<2>>, <<1, 3>>}
HardenWts == {1, 2, 4}

InitHarden ==
  \E hs \in SeqsUpTo(HardenClauses, MaxHardenHards),
     ss \in SeqsUpTo(HardenClauses, MaxHardenSofts) :
    \E ws \in [1..Len(ss) -> HardenWts] :
      LET w == BuiltStore(hs, ss, ws) IN
        /\ hard_cls = w.hard_cls /\ soft_cls = w.soft_cls
        /\ soft_clswts = w.soft_clswts /\ base_cost = w.base_cost
        /\ total_cls_wt = w.total_cls_wt /\ maxvar = w.maxvar
        /\ maxorigvar = w.maxorigvar /\ unsat = w.unsat /\ noDups = w.noDups
        /\ dimacs_top = w.dimacs_top /\ transitionWts = w.transitionWts
        /\ wt_max = w.wt_max /\ hard_units = w.hard_units /\ all_scc = w.all_scc
        /\ flipped_vars = w.flipped_vars /\ ex2in = w.ex2in /\ in2ex = w.in2ex
        /\ mutexes = w.mutexes
        /\ params = DefaultParams /\ pc = "harden"
        /\ orig_hards = hs /\ orig_softs = ss /\ orig_wts = ws
        /\ nsimp = 1 /\ loaded = "none" /\ snap = w /\ finder = NoFinder
        /\ call = [fn |-> "simpleHarden", arg |-> <<>>, done |-> FALSE, ret |-> <<>>]

SimpleHardenRun ==
  /\ call.fn = "simpleHarden" /\ ~call.done
  /\ pc = "harden" /\ pc' = "eqs"
  /\ \E r \in simpleHardenRuns(W) :
       /\ Assign(r.store)
       /\ call' = [call EXCEPT !.done = TRUE, !.ret = r.top]
  /\ UNCHANGED <<params, ghost, finder>>

NextHarden == SimpleHardenRun
SpecHarden == InitHarden /\ [][NextHarden]_vars

\* the softs given, of weight >= t (heavy) or < t, in their order, and their weights
GivenIdx(t, heavy) == SetToSeq({i \in 1..Len(orig_softs) : (orig_wts[i] >= t) = heavy})
GivenSofts(t, heavy) ==
  [k \in 1..Len(GivenIdx(t, heavy)) |-> orig_softs[GivenIdx(t, heavy)[k]]]
GivenWts(t, heavy) ==
  [k \in 1..Len(GivenIdx(t, heavy)) |-> orig_wts[GivenIdx(t, heavy)[k]]]
Satisfiable(cls) == Models(cls, NumVars(cls)) # {}

\* C17: after simpleHarden, if a soft has become a hard then the oracle
\* answered satisfiable on the highest tier and there is a transition weight T
\* such that the hards with all softs of weight >= T are satisfiable, the
\* softs moved are those of weight >= T and the others are left as they were;
\* if the oracle answered Undef or unsatisfiable on the highest tier, hards,
\* softs and weights are as they were.
C17_HardenOnlyOnSat ==
  Called("simpleHarden") =>
    /\ hard_cls # orig_hards =>
         /\ call.ret = "T"
         /\ \E T \in Range(transitionWts) :
              /\ Satisfiable(orig_hards \o GivenSofts(T, TRUE))
              /\ hard_cls = orig_hards \o GivenSofts(T, TRUE)
              /\ soft_cls = GivenSofts(T, FALSE)
              /\ soft_clswts = GivenWts(T, FALSE)
    /\ call.ret \in {"U", "F"} =>
         /\ hard_cls = orig_hards
         /\ soft_cls = orig_softs
         /\ soft_clswts = orig_wts

\* softs of weights 1, 2, 4 with two tiers: the tier of 4 was answered
\* satisfiable, the tier of 2 was not, and only the soft of weight 4 moved
C17_Witness ==
  /\ Called("simpleHarden") /\ call.ret = "T"
  /\ orig_wts = <<1, 2, 4>> /\ transitionWts = <<2, 4>>
  /\ Len(hard_cls) = Len(orig_hards) + 1 /\ soft_clswts = <<1, 2>>

\* the budget ran out on the highest tier and the store was left alone
C17_WitnessUndef ==
  /\ Called("simpleHarden") /\ call.ret = "U"
  /\ orig_wts = <<1, 2, 4>> /\ hard_cls = orig_hards /\ soft_clswts = orig_wts


(* ------------------------------------------------------------------ *)
(* binary_scc on its own, on the edge map subEqsAndUnits builds from   *)
(* a list of binary hard clauses with no unit forced.                  *)
(* ------------------------------------------------------------------ *)
MaxSccVar == 2
MaxSccCls == 4
SccLits == 0..(2 * MaxSccVar + 1)
\* the prepared binary clauses over the variables 0..MaxSccVar
SccClauses ==
  {c \in {<<a, b>> : a, b \in SccLits} : c[1] < c[2] /\ c[2] # Neg(c[1])}

InitScc ==
  /\ Constructed /\ params = DefaultParams
  /\ \E cls \in SeqsUpTo(SccClauses, MaxSccCls) :
       call = [fn |-> "binary_scc", arg |-> cls, done |-> FALSE, ret |-> <<>>]

\* lines 281-293 with no forced literal, then binary_scc
SccEdges(cls) == BuildEdges(get_binaries(cls, <<>>), 1, <<>>)

BinaryScc ==
  /\ call.fn = "binary_scc" /\ ~call.done
  /\ call' = [call EXCEPT !.done = TRUE, !.ret = binary_scc(SccEdges(call.arg))]
  /\ CallFrame

NextScc == BinaryScc
SpecScc == InitScc /\ [][NextScc]_vars

\* the implication graph of the clauses: (a \/ b) gives ~a -> b and ~b -> a
ImpliedBy(cls, l) ==
  {c[2] : c \in {d \in Range(cls) : d[1] = Neg(l)}} \cup
  {c[1] : c \in {d \in Range(cls) : d[2] = Neg(l)}}
RECURSIVE ReachFrom(_, _)
ReachFrom(cls, S) ==
  LET n == S \cup UNION {ImpliedBy(cls, l) : l \in S}
  IN IF n = S THEN S ELSE ReachFrom(cls, n)
Component(cls, l) ==
  {m \in ReachFrom(cls, {l}) : l \in ReachFrom(cls, {m})}
\* the strongly connected components of two or more literals
BigComponents(cls) ==
  {C \in {Component(cls, l) : l \in SccLits} : Cardinality(C) >= 2}
Dual(C) == {Neg(l) : l \in C}
Returned == {Range(call.ret[i]) : i \in 1..Len(call.ret)}
OnceEach(scc) == \A i, j \in 1..Len(scc) : var(scc[i]) = var(scc[j]) => i = j
SelfDual(cls) == \E l \in SccLits : Neg(l) \in Component(cls, l)

\* C18: binary_scc returns exactly the strongly connected components of two
\* or more literals of the implication graph, one of each component and its
\* dual: each returned list holds all the literals of its component, no
\* variable twice, and no variable is in two returned lists.
C18_SccExact ==
  Called("binary_scc") =>
    /\ Returned \subseteq BigComponents(call.arg)
    /\ \A C \in BigComponents(call.arg) :
         (C \in Returned \/ Dual(C) \in Returned)
         /\ (C # Dual(C) => ~(C \in Returned /\ Dual(C) \in Returned))
    /\ \A i \in 1..Len(call.ret) : OnceEach(call.ret[i])
    /\ \A i, j \in 1..Len(call.ret) :
         i # j => {var(l) : l \in Range(call.ret[i])} \cap
                  {var(l) : l \in Range(call.ret[j])} = {}

\* C18 for a graph in which no literal is in the component of its negation
C18_SccExactUnlessSelfDual ==
  (Called("binary_scc") /\ ~SelfDual(call.arg)) =>
    /\ Returned \subseteq BigComponents(call.arg)
    /\ \A C \in BigComponents(call.arg) :
         (C \in Returned \/ Dual(C) \in Returned)
         /\ ~(C \in Returned /\ Dual(C) \in Returned)
    /\ \A i \in 1..Len(call.ret) : OnceEach(call.ret[i])
    /\ \A i, j \in 1..Len(call.ret) :
         i # j => {var(l) : l \in Range(call.ret[i])} \cap
                  {var(l) : l \in Range(call.ret[j])} = {}

\* x0 -> x1 -> x2 -> x0: one component of three literals came back, its dual
\* did not
C18_Witness ==
  /\ Called("binary_scc")
  /\ call.arg = <<<<1, 2>>, <<3, 4>>, <<0, 5>>>>
  /\ Len(call.ret) = 1 /\ Cardinality(Range(call.ret[1])) = 3


(* ------------------------------------------------------------------ *)
(* The mutexes the finder has collected (checked under SpecMx, where   *)
(* the oracle answers findImplications with any set of literals).      *)
(* ------------------------------------------------------------------ *)
FoundMxs == finder.fs.mxs
MxLits == DOMAIN finder.fs.cache
\* blitMXes[l] lists m: it was last filled or pruned with m in it
Listed(fs, l, m) == m \in Range(fs.cache[l])
\* every entry blitMXes gains in a step is the negation of a literal the
\* oracle answered in that step
ListedAsReported ==
  \A l, m \in MxLits :
    (Listed(finder'.fs, l, m) /\ ~Listed(finder.fs, l, m)) =>
      <<l, Neg(m)>> \in finder'.fs.reports

\* C19: the lists of blitMXes hold only what the oracle answered (m is listed
\* for l only after the oracle said that l implies the negation of m), and
\* for every two different literals a, b of a mutex, when the finder
\* collects it, b is listed for a or a is listed for b.
C19_MutexPairsReported ==
  [][/\ ListedAsReported
     /\ Len(finder'.fs.mxs) > Len(finder.fs.mxs) =>
          \A a, b \in Range(finder'.fs.mxs[Len(finder'.fs.mxs)]) :
            a # b => Listed(finder'.fs, a, b) \/ Listed(finder'.fs, b, a)]_vars

\* a mutex of three different literals has just been collected, with a pair
\* listed in one direction only
C19_Witness ==
  /\ Len(FoundMxs) >= 1 /\ finder.fs.reports # {}
  /\ Cardinality(Range(FoundMxs[Len(FoundMxs)])) >= 3
  /\ \E a, b \in Range(FoundMxs[Len(FoundMxs)]) :
       a # b /\ Listed(finder.fs, a, b) /\ ~Listed(finder.fs, b, a)

\* C20: no literal is in two of the mutexes the finder has collected, and no
\* mutex holds a literal whose negation is in a collected mutex.
C20_MutexesDisjoint ==
  /\ \A m, n \in 1..Len(FoundMxs) :
       m # n => Range(FoundMxs[m]) \cap Range(FoundMxs[n]) = {}
  /\ \A m, n \in 1..Len(FoundMxs) :
       \A l \in Range(FoundMxs[m]) : Neg(l) \notin Range(FoundMxs[n])

\* two mutexes were returned by one run, each of two different literals
C20_Witness ==
  /\ finder.fs.phase = "returned"
  /\ Len(FoundMxs) >= 2
  /\ \A m \in 1..Len(FoundMxs) : Cardinality(Range(FoundMxs[m])) >= 2

(* ------------------------------------------------------------------ *)
(* The mutex step of simplify() on its own (lines 211-219): the        *)
(* searches it runs for a value of mx_find_mxes, each one a pass of    *)
(* the finder's loops at a time.  call.arg is the value simplify()     *)
(* found in params, call.ret the number of searches that have          *)
(* returned.  The softs all have the same weight.                      *)
(* ------------------------------------------------------------------ *)
InitModes ==
  \E ss \in MxSoftSeqs, mode \in 0..3 :
    LET ws == [i \in 1..Len(ss) |-> MaxWt] IN
      LET w == BuiltStore(<<>>, ss, ws) IN
        /\ hard_cls = w.hard_cls /\ soft_cls = w.soft_cls
        /\ soft_clswts = w.soft_clswts /\ base_cost = w.base_cost
        /\ total_cls_wt = w.total_cls_wt /\ maxvar = w.maxvar
        /\ maxorigvar = w.maxorigvar /\ unsat = w.unsat /\ noDups = TRUE
        /\ dimacs_top = w.dimacs_top /\ transitionWts = w.transitionWts
        /\ wt_max = w.wt_max /\ hard_units = w.hard_units /\ all_scc = w.all_scc
        /\ flipped_vars = w.flipped_vars /\ ex2in = w.ex2in /\ in2ex = w.in2ex
        /\ mutexes = w.mutexes
        /\ params = [DefaultParams EXCEPT !.mx_find_mxes = mode] /\ pc = "mx"
        /\ orig_hards = <<>> /\ orig_softs = ss /\ orig_wts = ws
        /\ nsimp = 1 /\ loaded = "none" /\ snap = [w EXCEPT !.noDups = TRUE]
        /\ finder = NoFinder
        /\ call = [fn |-> "mxes", arg |-> mode, done |-> FALSE, ret |-> 0]

\* no search is running: none has started, or the last one has returned
BetweenSearches ==
  /\ call.fn = "mxes" /\ ~call.done /\ pc = "mx"
  /\ finder.fs.phase \in {"none", "returned"}

\* lines 213-217 and 849-857, 1067-1074: mx_find_mxes is set for the next
\* search, the Bvars are built and the finder is constructed
ModesStart ==
  /\ BetweenSearches /\ call.ret < Len(MxModes(call.arg))
  /\ LET mode == MxModes(call.arg)[call.ret + 1]
         bv == Bvars(W)
     IN /\ params' = [params EXCEPT !.mx_find_mxes = mode]
        /\ finder' = [bv |-> bv, limit |-> MxMemUnit * params.mx_mem_limit,
                      cpu_lim |-> params.mx_cpu_lim, fs |-> FinderInit(W, bv, mode)]
  /\ UNCHANGED <<wvars, pc, ghost, call>>

\* line 857: findMxs returns and processMxs rewrites the store
ModesReturn ==
  /\ call.fn = "mxes" /\ pc = "mx"
  /\ finder.fs.phase \in {"A", "B", "done"} /\ FinderDone(finder.fs)
  /\ Assign(processMxs(W, finder.fs.mxs, finder.bv))
  /\ finder' = [finder EXCEPT !.fs.phase = "returned"]
  /\ call' = [call EXCEPT !.ret = @ + 1]
  /\ UNCHANGED <<params, pc, ghost>>

\* line 219: every search has been run
ModesEnd ==
  /\ BetweenSearches /\ call.ret = Len(MxModes(call.arg))
  /\ call' = [call EXCEPT !.done = TRUE]
  /\ pc' = "wt"
  /\ UNCHANGED <<wvars, params, ghost, finder>>

NextModes ==
  \/ ModesStart
  \/ \E g \in SUBSET SelLits(finder.bv), timeUp \in ClockReadings : MxPhaseA(g, timeUp)
  \/ \E g \in SUBSET SelLits(finder.bv) : MxPhaseB(g)
  \/ ModesReturn
  \/ ModesEnd

SpecModes == InitModes /\ [][NextModes]_vars

\* a search of the finder is under way
Searching == call.fn = "mxes" /\ finder.fs.phase \in {"A", "B", "done"}
\* the searches that have returned included one over the core (non-core)
\* selector literals
CoresSearched == \E k \in 1..call.ret : MxModes(call.arg)[k] \in {1, 3}
NonCoresSearched == \E k \in 1..call.ret : MxModes(call.arg)[k] \in {2, 3}
\* a core (non-core) selector literal waits on the work stack
CoreOnStack ==
  Searching /\ \E i \in 1..Len(finder.fs.toProcess) :
                 isCore(finder.bv, finder.fs.toProcess[i])
NonCoreOnStack ==
  Searching /\ \E i \in 1..Len(finder.fs.toProcess) :
                 isNonCore(finder.bv, finder.fs.toProcess[i])
\* the search under way has committed a core (non-core) mutex
CoreFound ==
  Searching /\ \E m \in 1..Len(finder.fs.mxs) :
                 isCore(finder.bv, finder.fs.mxs[m][1])
NonCoreFound ==
  Searching /\ \E m \in 1..Len(finder.fs.mxs) :
                 isNonCore(finder.bv, finder.fs.mxs[m][1])

\* C21 as stated: with mx_find_mxes = 3, no non-core mutex is committed
\* before the core selector literals have been processed: whenever the search
\* under way holds a non-core mutex, the search over the core literals has
\* returned and no core literal waits on the work stack.
C21_CoresFirst ==
  (call.fn = "mxes" /\ call.arg = 3 /\ NonCoreFound)
    => (CoresSearched /\ ~CoreOnStack)

\* C21 amended: with mx_find_mxes = 3 the non-core selector literals are
\* processed first: whenever a core literal waits on the work stack or a core
\* mutex has been committed, the search over the non-core literals has
\* returned and no non-core literal waits on the work stack.
C21_NonCoresFirst ==
  (call.fn = "mxes" /\ call.arg = 3 /\ (CoreOnStack \/ CoreFound))
    => (NonCoresSearched /\ ~NonCoreOnStack)

\* mx_find_mxes = 3: the first search has committed a non-core mutex
\* (base_cost was raised) and the second has committed a core mutex
C21_Witness ==
  /\ call.fn = "mxes" /\ call.arg = 3 /\ call.ret = 1
  /\ base_cost > 0 /\ CoreFound

(* ------------------------------------------------------------------ *)
(* processMxs on non-core mutexes (lines 955-1009), in the steps of    *)
(* SpecMx at which findMxs returns.                                    *)
(* ------------------------------------------------------------------ *)
\* the step hands the mutexes of a non-core search to processMxs
NonCoreReturn ==
  pc = "mx" /\ pc' = "wt" /\ params.mx_find_mxes = 2 /\ ~unsat
\* the softs of the m-th mutex, their literals and their weight
Members(m) ==
  {clsIndex(finder.bv, finder.fs.mxs[m][i]) : i \in 1..Len(finder.fs.mxs[m])}
UnionLits(m) == UNION {Range(soft_cls[i]) : i \in Members(m)}
MutexWt(m) == bvWt(finder.bv, var(finder.fs.mxs[m][1]))
\* the literal d processMxs takes for the m-th mutex
FreshLit(m) == mkLit(finder.bv.maxbvar + m, FALSE)
\* the softs outside every mutex, in their order
KeptSofts ==
  SelectSeq([i \in 1..Len(soft_cls) |-> i],
            LAMBDA i : \A m \in 1..Len(finder.fs.mxs) : i \notin Members(m))
\* the softs of the mutexes are deleted, each mutex gets the soft unit (~d)
\* of its weight, and base_cost grows by (k-1)*w for each
SoftsRewritten ==
  LET n == Len(finder.fs.mxs) IN
    /\ \A m \in 1..n : /\ var(FreshLit(m)) \notin VarsOf(hard_cls \o soft_cls)
                       /\ \A i \in Members(m) : soft_clswts[i] = MutexWt(m)
    /\ soft_cls' = [k \in 1..Len(KeptSofts) |-> soft_cls[KeptSofts[k]]] \o
                   [m \in 1..n |-> <<Neg(FreshLit(m))>>]
    /\ soft_clswts' = [k \in 1..Len(KeptSofts) |-> soft_clswts[KeptSofts[k]]] \o
                      [m \in 1..n |-> MutexWt(m)]
    /\ base_cost' = base_cost +
         SeqSum([m \in 1..n |-> (Cardinality(Members(m)) - 1) * MutexWt(m)])
\* the hard clauses added are those of the mutexes in ms, one each: the union
\* of the literals of its softs plus d
HardsAdded(ms) ==
  /\ Len(hard_cls') = Len(hard_cls) + Cardinality(ms)
  /\ SubSeq(hard_cls', 1, Len(hard_cls)) = hard_cls
  /\ {Range(hard_cls'[j]) : j \in (Len(hard_cls) + 1)..Len(hard_cls')} =
       {UnionLits(m) \cup {FreshLit(m)} : m \in ms}
\* the literals of the softs of the m-th mutex hold a literal and its negation
TautUnion(m) == \E l \in UnionLits(m) : Neg(l) \in UnionLits(m)

\* C22 as stated: for each non-core mutex of k softs of weight w, processMxs
\* deletes the k softs, adds one hard clause of the union of their literals
\* plus a fresh literal d, adds the soft unit (~d) of weight w and raises
\* base_cost by (k-1)*w.
C22_NonCoreRewrite ==
  [][NonCoreReturn =>
       SoftsRewritten /\ HardsAdded(1..Len(finder.fs.mxs))]_vars

\* C22 amended: the same, except that no hard clause is added for a mutex
\* whose softs hold a literal and its negation between them.
C22_NonCoreRewriteUnlessTautology ==
  [][NonCoreReturn =>
       /\ SoftsRewritten
       /\ HardsAdded({m \in 1..Len(finder.fs.mxs) : ~TautUnion(m)})]_vars

\* processMxs has rewritten a non-core mutex of three softs, one of them not
\* a unit
C22_Witness ==
  /\ pc = "wt" /\ params.mx_find_mxes = 2 /\ finder.fs.phase = "returned"
  /\ \E m \in 1..Len(finder.fs.mxs) : Len(finder.fs.mxs[m]) = 3
  /\ base_cost > 0 /\ Len(hard_cls) = 1 /\ Len(hard_cls[1]) > 3
  /\ Len(soft_cls) = 1

\* processMxs has rewritten a non-core mutex whose softs hold x and ~x
C22_WitnessTautology ==
  /\ pc = "wt" /\ params.mx_find_mxes = 2 /\ finder.fs.phase = "returned"
  /\ Len(finder.fs.mxs) = 1 /\ base_cost > 0 /\ hard_cls = <<>>

\* C23: after processMxs there is one stored mutex record for every mutex the
\* finder committed, and the record of a non-core mutex has is_core = false,
\* encoding_lit = d and as blits the literals of the mutex's original softs.
C23_MutexRecordsStored ==
  (pc = "wt" /\ finder.fs.phase = "returned") =>
    /\ Len(mutexes) = Len(FoundMxs)
    /\ \A m \in 1..Len(FoundMxs) :
         isNonCore(finder.bv, FoundMxs[m][1]) =>
           /\ ~mutexes[m].is_core
           /\ mutexes[m].encoding_lit = FreshLit(m)
           /\ Range(mutexes[m].blits) =
                UNION {Range(orig_softs[i]) : i \in Members(m)}

(* ------------------------------------------------------------------ *)
(* rewriteModelToInput after simplify(), on formulas whose hard        *)
(* clauses hold units and equivalences over three variables.           *)
(* ------------------------------------------------------------------ *)
MaxLiftHards == 4
\* units on x0 and x2; x0 == x1, x1 == x2 and x0 == ~x1 as binary clauses
LiftPool ==
  <<<<0>>, <<1>>, <<4>>, <<0, 3>>, <<1, 2>>, <<2, 5>>, <<3, 4>>, <<0, 2>>, <<1, 3>>>>
LiftHards ==
  UNION {{[k \in 1..Len(SetToSeq(S)) |-> LiftPool[SetToSeq(S)[k]]],
          [k \in 1..Len(SetToSeq(S)) |->
             LiftPool[SetToSeq(S)[Len(SetToSeq(S)) + 1 - k]]]} :
           S \in {T \in SUBSET (1..Len(LiftPool)) : Cardinality(T) <= MaxLiftHards}}
LiftSofts == {<<>>, <<<<4>>>>, <<<<3>>>>}
LiftParams ==
  {DefaultParams, [DefaultParams EXCEPT !.wcnf_harden = FALSE, !.mx_find_mxes = 0]}

InitLift ==
  \E hs \in LiftHards, ss \in LiftSofts, prm \in LiftParams :
    LET ws == [i \in 1..Len(ss) |-> 1]
        w == BuiltStore(hs, ss, ws) IN
      /\ hard_cls = w.hard_cls /\ soft_cls = w.soft_cls
      /\ soft_clswts = w.soft_clswts /\ base_cost = w.base_cost
      /\ total_cls_wt = w.total_cls_wt /\ maxvar = w.maxvar
      /\ maxorigvar = w.maxorigvar /\ unsat = w.unsat /\ noDups = w.noDups
      /\ dimacs_top = w.dimacs_top /\ transitionWts = w.transitionWts
      /\ wt_max = w.wt_max /\ hard_units = w.hard_units /\ all_scc = w.all_scc
      /\ flipped_vars = w.flipped_vars /\ ex2in = w.ex2in /\ in2ex = w.in2ex
      /\ mutexes = w.mutexes
      /\ params = prm /\ pc = "idle"
      /\ orig_hards = hs /\ orig_softs = ss /\ orig_wts = ws
      /\ nsimp = 0 /\ loaded = "none" /\ snap = EmptyWcnf /\ finder = NoFinder
      /\ call = NoCall

\* the solver's model: a value for every internal variable
UbModels == [1..nVars(W) -> {"T", "F"}]

\* rewriteModelToInput(ubmodel) is called after simplify(); call.arg holds
\* the object and the argument
RewriteModelToInput ==
  /\ pc = "idle" /\ nsimp > 0 /\ call = NoCall
  /\ \E ubmodel \in UbModels :
       call' = [fn |-> "rewriteModelToInput", arg |-> [this |-> W, ubmodel |-> ubmodel],
                done |-> TRUE, ret |-> rewriteModelToInput(W, ubmodel)]
  /\ CallFrame

NextLift ==
  \/ SimplifyBegin
  \/ SimpleHarden
  \/ SubEqsAndUnits
  \/ RemDupCls
  \/ MxBvars
  \/ RemapVars
  \/ RewriteModelToInput

SpecLift == InitLift /\ [][NextLift]_vars

\* the literal is true in a vector of lbool
TrueIn(l, m) ==
  var(l) + 1 \in DOMAIN m /\ m[var(l) + 1] = IF sign(l) THEN "F" ELSE "T"

C24_WitnessOpposite ==
  /\ Called("rewriteModelToInput") /\ ~call.arg.this.unsat
  /\ \E l \in Range(call.arg.this.hard_units) :
       \E s \in 1..Len(call.arg.this.all_scc) :
         \E i \in 2..Len(call.arg.this.all_scc[s]) :
           /\ var(call.arg.this.all_scc[s][i]) = var(l)
           /\ sign(call.arg.this.all_scc[s][i]) # sign(call.arg.this.all_scc[s][1])

(* ------------------------------------------------------------------ *)
(* findMxs when neither limit is reached: the memory limit is the      *)
(* default one and the clock never passes mx_cpu_lim.  The solver's    *)
(* answers are a table fixed for the run, any table: for each literal  *)
(* searched, the softs whose searched literal it excludes.  The loops  *)
(* are sequential code, so a pass that can be taken is taken.          *)
(* ------------------------------------------------------------------ *)
\* the literal of the i-th soft that a search of this mode works on
SearchedLit(bv, mode, i) == IF mode = 1 THEN bv.blits[i] ELSE Neg(bv.blits[i])
\* findImplications by the table t: the literal searched for soft i implies
\* the negation of the one searched for each soft of t[i]
TableImps(bv, mode, t) ==
  [l \in 0..(2 * n_vars(bv) - 1) |->
     SetToSeq(UNION {{Neg(SearchedLit(bv, mode, j)) : j \in t[i]} :
                       i \in {k \in 1..Len(bv.blits) : SearchedLit(bv, mode, k) = l}})]

\* nothing built yet; the run is about to be set up
InitMxFree ==
  /\ Constructed /\ params = DefaultParams /\ call = NoCall

\* the formula is built (n unit softs of one weight), mx_find_mxes is set and
\* findMxs is entered (lines 1082-1123), the solver answering by table t
FreeStart ==
  /\ pc = "idle" /\ nsimp = 0
  /\ \E n \in {MaxMxSofts, MaxMxSofts + 1}, mode \in {1, 2} :
       \E t \in {f \in [1..n -> SUBSET (1..n)] : \A i \in 1..n : i \notin f[i]} :
         LET ss == SubSeq(MxManySofts, 1, n)
             ws == [i \in 1..n |-> MaxWt]
             w == [BuiltStore(<<>>, ss, ws) EXCEPT !.noDups = TRUE]
             bv == Bvars(w)
         IN
           /\ Assign(w)
           /\ params' = [params EXCEPT !.mx_find_mxes = mode]
           /\ orig_hards' = <<>> /\ orig_softs' = ss /\ orig_wts' = ws
           /\ nsimp' = 1 /\ snap' = w
           /\ finder' = [bv |-> bv, limit |-> MxMemUnit * params.mx_mem_limit,
                         cpu_lim |-> params.mx_cpu_lim,
                         imp |-> TableImps(bv, mode, t),
                         fs |-> FinderInit(w, bv, mode)]
  /\ pc' = "mx"
  /\ UNCHANGED <<loaded, call>>

\* one pass of the loop at line 1126, the clock not past the limit
FreePhaseA ==
  /\ pc = "mx" /\ finder.fs.phase = "A" /\ finder.fs.toProcess # <<>>
  /\ finder' = [finder EXCEPT !.fs = PhaseAStep(finder, ThisPass(finder.fs), FALSE)]
  /\ MxFrame

\* one pass of the loop at line 1223
FreePhaseB ==
  /\ pc = "mx" /\ finder.fs.phase \in {"A", "B"}
  /\ finder.fs.toProcess = <<>> /\ finder.fs.twos # <<>>
  /\ finder' = [finder EXCEPT
                  !.fs = PhaseBStep(finder, [ThisPass(finder.fs) EXCEPT !.phase = "B"])]
  /\ MxFrame

NextMxFree == FreeStart \/ FreePhaseA \/ FreePhaseB \/ MxReturn

\* the passes of the two loops
FinderPasses == FreePhaseA \/ FreePhaseB
\* a pass can be taken: a loop has work left
PassEnabled ==
  /\ pc = "mx" /\ finder.fs.phase \in {"A", "B"}
  /\ finder.fs.toProcess # <<>> \/ finder.fs.twos # <<>>
\* WF_vars(FinderPasses) written out, PassEnabled being ENABLED <<FinderPasses>>_vars
\* (every pass raises finder.fs.loops or shortens twos)
PassesFair == []<>(~PassEnabled) \/ []<><<FinderPasses>>_vars

SpecMxFree == InitMxFree /\ [][NextMxFree]_vars /\ PassesFair

\* the unmarked literals among those listed for l
EffMx(fs, l) ==
  Cardinality({k \in 1..Len(fs.cache[l]) : fs.marks[fs.cache[l][k]] # inmx})
\* the step is a pass of the first loop; blit is toProcess.back() before it
PhaseAPass == pc = "mx" /\ finder.fs.phase = "A" /\ finder.fs.toProcess # <<>>
TopBlit == finder.fs.toProcess[Len(finder.fs.toProcess)]
\* the pass popped blit, or marked it, or left unmarked fewer literals of
\* its list than getMXLits(blit) returned in this pass
PassProgress ==
  \/ Len(finder'.fs.toProcess) < Len(finder.fs.toProcess)
  \/ finder.fs.marks[TopBlit] = 0 /\ finder'.fs.marks[TopBlit] # 0
  \/ /\ TopBlit \in finder'.fs.cached
     /\ EffMx(finder'.fs, TopBlit) < Len(finder'.fs.cache[TopBlit])

C25_PassProgress == [][PhaseAPass => PassProgress]_vars
\* once the first loop runs, toProcess becomes empty (under PassesFair)
C25_PhaseAEnds == (finder.fs.phase = "A") ~> (finder.fs.toProcess = <<>>)
\* the first loop makes at most two passes for each literal of toProcess
C25_PassesBounded == finder.fs.loops <= 2 * Len(finder.bv.blits)

\* C25: without the time and the memory limit, every pass of the first loop
\* of findMxs pops the top of toProcess, or marks it (so that the next pass
\* pops it), or strictly shrinks its set of mutually exclusive literals; and
\* the loop ends: it never makes more than two passes for each literal it
\* started with.
C25_PhaseATerminates == [](C25_PassesBounded) /\ C25_PassProgress

\* a pass has committed a mutex that does not hold the top of toProcess: the
\* top is still there, unmarked, with fewer unmarked literals in its list
C25_Witness ==
  /\ pc = "mx" /\ finder.fs.phase = "A" /\ finder.fs.toProcess # <<>>
  /\ ~finder.fs.timedOut /\ Len(finder.fs.mxs) >= 1
  /\ finder.fs.marks[TopBlit] = 0 /\ TopBlit \in finder.fs.cached
  /\ EffMx(finder.fs, TopBlit) < Len(finder.fs.cache[TopBlit])


(* ------------------------------------------------------------------ *)
(* The limits of the finder (findMxs lines 1132-1148, getMXLits lines   *)
(* 1437-1443), under SpecMx.                                            *)
(* ------------------------------------------------------------------ *)
\* the loop at line 1126 is about to make a pass with the memory used up
AtMemLimit ==
  /\ pc = "mx" /\ finder.fs.phase = "A" /\ finder.fs.toProcess # <<>>
  /\ finder.fs.mem >= finder.limit
\* the pass only sets timedOut and leaves the loop
StopsGrowing ==
  /\ finder'.fs.timedOut /\ finder'.fs.phase = "done"
  /\ finder'.fs.mxs = finder.fs.mxs /\ finder'.fs.marks = finder.fs.marks
  /\ finder'.fs.twos = finder.fs.twos /\ finder'.fs.toProcess = finder.fs.toProcess
\* findMxs returns what it holds, the second loop not entered, and the store
\* is what processMxs makes of these mutexes, unsat not set
ReturnsCommitted ==
  /\ finder'.fs.phase = "returned" /\ finder'.fs.mxs = finder.fs.mxs
  /\ finder'.fs.twos = finder.fs.twos
  /\ W' = processMxs(W, finder.fs.mxs, finder.bv)
  /\ ~unsat'
\* a mutex once committed stays in mxs
KeepsCommitted ==
  /\ Len(finder'.fs.mxs) >= Len(finder.fs.mxs)
  /\ SubSeq(finder'.fs.mxs, 1, Len(finder.fs.mxs)) = finder.fs.mxs
\* getMXLits of a literal not in the cache returns no literal, whatever the
\* solver would answer
UncachedEmpty ==
  \A l \in DOMAIN finder.fs.marks \ finder.fs.cached :
    \A g \in SUBSET SelLits(finder.bv) :
      getMXLits(FinderCtx(g), finder.fs, l).v = <<>>
\* the pass numbered CpuPollPeriod, were it made from here with the clock
\* past mx_cpu_lim, only sets timedOut and leaves the loop
ClockStops ==
  LET fs == [ThisPass(finder.fs) EXCEPT !.loops = CpuPollPeriod - 1]
      nx == PhaseAStep(FinderCtx({}), fs, TRUE)
  IN nx = [fs EXCEPT !.loops = CpuPollPeriod, !.timedOut = TRUE, !.phase = "done"]

C26_StopsAtLimit == [][AtMemLimit => StopsGrowing]_vars
C26_ReturnsAfterLimit ==
  [][pc = "mx" /\ finder.fs.timedOut => ReturnsCommitted]_vars
C26_KeepsCommitted == [][pc = "mx" => KeepsCommitted]_vars
C26_LookupsEmpty ==
  pc = "mx" /\ finder.fs.phase = "A" /\ finder.fs.mem >= finder.limit => UncachedEmpty
C26_ClockStops ==
  pc = "mx" /\ finder.fs.phase = "A" /\ finder.fs.toProcess # <<>> => ClockStops

C26_Witness ==
  /\ finder.fs.phase = "returned" /\ finder.fs.timedOut
  /\ finder.fs.twos # <<>> /\ finder.fs.mem >= finder.limit /\ ~unsat
DupGiven == BuiltStore(orig_hards, orig_softs, orig_wts)
\* what the pass leaves: the hard clauses, the soft clauses with their
\* weights, base_cost and unsat
DupOutcome(w) ==
  [hards |-> Range(w.hard_cls),
   softs |-> {<<w.soft_cls[i], w.soft_clswts[i]>> : i \in 1..Len(w.soft_cls)},
   base_cost |-> w.base_cost, unsat |-> w.unsat]
\* the outcomes of the pass on w over the orders std::sort may leave, the
\* reads past the end of a population answered alike
DupOutcomes(w, oob) ==
  IF w.noDups \/ w.unsat THEN {DupOutcome(w)}
  ELSE {DupOutcome(remDupClsWith([w EXCEPT !.noDups = TRUE], cd, oob)) :
          cd \in SortedByHash(initClsData([w EXCEPT !.noDups = TRUE]))}

\* C27: the outcome of remDupCls (hard clauses, weighted soft clauses,
\* base_cost, unsat) is the same for every order in which the sort leaves the
\* records of equal hash.
C27_OrderIndependent ==
  DupDone => \A oob \in BOOLEAN : Cardinality(DupOutcomes(DupGiven, oob)) = 1


(* ------------------------------------------------------------------ *)
(* The soft clauses and their weights, under Spec.                      *)
(* ------------------------------------------------------------------ *)
\* C28: in every state reached by inserting clauses and by the passes of
\* simplify(), also when a pass has set unsat and returned early, soft_cls
\* and soft_clswts have the same size.
C28_SoftSizesAgree == Len(soft_cls) = Len(soft_clswts)

\* remDupCls has met two opposed hard units in its inner loop, set unsat and
\* returned (line 615) with soft clauses in the store
C28_Witness ==
  /\ pc = "mx" /\ unsat /\ ~snap.unsat /\ noDups /\ ~snap.noDups
  /\ soft_cls # <<>>


(* ------------------------------------------------------------------ *)
(* params.mx_find_mxes across the mutex step of simplify() (lines       *)
(* 211-219), under SpecModes.                                           *)
(* ------------------------------------------------------------------ *)
\* C29: when the mutex step of simplify() is over, mx_find_mxes has the value
\* simplify() was called with, for each of the values 0, 1, 2 and 3.
C29_ModeRestored == call.done => params.mx_find_mxes = call.arg


(* ------------------------------------------------------------------ *)
(* The population eqVecs reads a record in (lines 688-701), under       *)
(* SpecDup.                                                             *)
(* ------------------------------------------------------------------ *)
\* the loops of remDupCls on w, for the order cdata, have called eqVecs on a
\* record created from a soft clause and read it in hard_cls
DupMisreads(w, cdata, oob) ==
  DupOuter(DupStart([w EXCEPT !.noDups = TRUE], cdata), 1, oob).misread

\* C30: in remDupCls no record created from a soft clause is looked up in
\* hard_cls, whatever order the sort leaves the records of equal hash in,
\* also after a merge with a hard clause has set the record's w to -1.
C30_LookupsInOwnPopulation ==
  DupDone /\ ~DupGiven.noDups /\ ~DupGiven.unsat =>
    \A cd \in SortedByHash(initClsData(DupGiven)), oob \in BOOLEAN :
      ~DupMisreads(DupGiven, cd, oob)

====
